---- MODULE Spec2Model ----
(***************************************************************************)
(* bugbot-buster: the fix loop (run), resolution mode                      *)
(* (runResolveAddressed), the progress ledger (tracker.ts) and             *)
(* commitAndPush (github.ts), modelled as one state machine.               *)
(*                                                                         *)
(* The comment source, the AI actor, git and the file system are the       *)
(* environment: every outcome they can produce is a nondeterministic       *)
(* choice of the action that calls them.                                   *)
(***************************************************************************)
EXTENDS Integers, Sequences, FiniteSets, TLC

(***************************************************************************)
(* Bounds                                                                  *)
(***************************************************************************)
\* comment identifiers the source can report are 1..MaxId
MaxId == 2
\* the largest --max-runs value an invocation is started with
MaxRunsOpt == 2
\* the longest actor output, in pieces, that the parsers are tried on
MaxOutput == 6
\* pull requests of one repository are numbered 1..MaxPR
MaxPR == 2

\* the timeout of the review poll, in poll intervals (timeoutMs /
\* pollIntervalMs is 20 in the program)
MaxPolls == 2

Ids == 1..MaxId

Null == "null"
\* the ledger file does not exist (existsSync is false)
NoFile == [enoent |-> TRUE]

(***************************************************************************)
(* Comments.  The author of a comment is fixed by its identifier (a        *)
(* comment is immutable but for its thread's resolved flag).  "Bot-A"      *)
(* differs from "bot-a" only in case.                                      *)
(***************************************************************************)
AuthorNames == <<"bot-a", "Bot-A", "human-b">>

AuthorOf(id) == AuthorNames[((id - 1) % Len(AuthorNames)) + 1]

Comment(id, resolved) == [id |-> id, author |-> AuthorOf(id), isResolved |-> resolved]

\* Array.prototype.includes
Includes(arr, x) == \E i \in DOMAIN arr : arr[i] = x

\* ids of a comment array, as the array toFix.map((c) => c.id)
MapId(cs) == [i \in DOMAIN cs |-> cs[i].id]

Range(s) == {s[i] : i \in DOMAIN s}

IdSet(cs) == {cs[i].id : i \in DOMAIN cs}

\* a comment of a thread as the query returns it (databaseId, author.login)
ThreadComment(id) == [databaseId |-> id, author |-> AuthorOf(id)]

\* a review thread on the remote side: id, isResolved, and its comments,
\* the originating one first
Thread(id, resolved, cs) == [id |-> id, isResolved |-> resolved, comments |-> cs]

\* reviewThreads(first: 100): the query asks for one page and never for the
\* next.  The page is scaled to the largest pull request the loop is run on
\* here, so that the loop always sees its threads on the first page.
ReviewThreadsFirst == MaxId

\* reviewThreads(first: 100) { nodes }: the first page of the threads
reviewThreads(all) ==
  SubSeq(all, 1, IF Len(all) < ReviewThreadsFirst THEN Len(all) ELSE ReviewThreadsFirst)

\* the for loop, lines 93-107: thread.comments.nodes[0], if there is one,
\* with the thread's isResolved
RECURSIVE FirstComments(_)
FirstComments(nodes) ==
  IF nodes = <<>> THEN <<>>
  ELSE (IF Len(Head(nodes).comments) > 0
          THEN <<Comment(Head(nodes).comments[1].databaseId, Head(nodes).isResolved)>>
          ELSE <<>>)
       \o FirstComments(Tail(nodes))

\* fetchPRComments on a pull request with the threads all
fetchPRCommentsOf(all) == FirstComments(reviewThreads(all))

\* the threads of the PR in the order the source reports them (by id):
\* present is the set of existing threads, resolved the resolved ones; each
\* has its originating comment, whose id is the thread's here
RECURSIVE ThreadsFrom(_, _, _)
ThreadsFrom(n, present, resolved) ==
  IF n > MaxId THEN <<>>
  ELSE (IF n \in present THEN <<Thread(n, n \in resolved, <<ThreadComment(n)>>)>>
                          ELSE <<>>)
       \o ThreadsFrom(n + 1, present, resolved)

\* fetchPRComments: one comment per review thread, carrying the thread's flag
fetchPRComments(present, resolved) ==
  fetchPRCommentsOf(ThreadsFrom(1, present, resolved))

(***************************************************************************)
(* The ledger (BusterState) and tracker.ts                                 *)
(***************************************************************************)
\* absent: the fields that are undefined in the object (a file lacks them);
\* an undefined field is written as the empty value here and is never read
\* without a test of absent
EmptyState ==
  [addressedCommentIds |-> <<>>, ignoredCommentIds |-> <<>>, lastRun |-> "", runs |-> <<>>,
   absent |-> {}]

LedgerFields == {"addressedCommentIds", "ignoredCommentIds", "lastRun", "runs"}

Undefined(st, field) == field \in st.absent

\* a file that exists and that the try block cannot turn into an object:
\* readFileSync throws on it ("unreadable") or JSON.parse does
\* ("unparseable"); held is the ids its text had as addressed
BadFile(kind, held) == [bad |-> kind, held |-> held]

\* the try block of loadState throws on this file
TryThrows(file) == "bad" \in DOMAIN file

\* loadState that never reads the file
loadState_alwaysEmpty(file) == EmptyState

\* loadState that recovers what it can from a damaged file
loadState_salvages(file) ==
  IF file = NoFile THEN EmptyState
  ELSE IF TryThrows(file) THEN [EmptyState EXCEPT !.addressedCommentIds = file.held]
  ELSE [file EXCEPT !.ignoredCommentIds = IF Undefined(file, "ignoredCommentIds")
                                            THEN <<>> ELSE @,
                    !.absent = @ \ {"ignoredCommentIds"}]

\* loadState: the empty ledger when the file is absent and when the try block
\* throws (the catch has no rethrow), else the parsed file
\* with ignoredCommentIds: state.ignoredCommentIds || [] (an empty list where
\* the file has none; the other fields stay as the file has them)
loadState(file) ==
  IF file = NoFile THEN EmptyState
  ELSE IF TryThrows(file) THEN EmptyState
  ELSE [file EXCEPT !.ignoredCommentIds = IF Undefined(file, "ignoredCommentIds")
                                            THEN <<>> ELSE @,
                    !.absent = @ \ {"ignoredCommentIds"}]

\* saveState that returns without writing
saveState_lost(file, st, writeOk) == file

\* saveState: writeFileSync replaces the file by the whole in-memory ledger;
\* when the write throws the file is left as it was
saveState(file, st, writeOk) == IF writeOk THEN st ELSE file

\* markAddressed that records nothing
markAddressed_dropped(st, commentIds) == st

markAddressed(st, commentIds) ==
  LET NotIn(id) == ~Includes(st.addressedCommentIds, id)
      newIds == SelectSeq(commentIds, NotIn)
  IN [st EXCEPT !.addressedCommentIds = st.addressedCommentIds \o newIds]

\* markIgnored that records nothing
markIgnored_dropped(st, commentIds) == st

\* markIgnored that replaces the ignored list by the new ids
markIgnored_overwrite(st, commentIds) ==
  LET NotIn(id) == ~Includes(st.ignoredCommentIds, id)
      newIds == SelectSeq(commentIds, NotIn)
  IN [st EXCEPT !.ignoredCommentIds = newIds]

markIgnored(st, commentIds) ==
  LET NotIn(id) == ~Includes(st.ignoredCommentIds, id)
      newIds == SelectSeq(commentIds, NotIn)
  IN [st EXCEPT !.ignoredCommentIds = st.ignoredCommentIds \o newIds]

\* addRunRecord that keeps only the newest record
addRunRecord_replaces(st, record) ==
  [st EXCEPT !.lastRun = "now", !.runs = <<record>>]

\* addRunRecord: lastRun set, runs: [...state.runs, record] (the timestamp of
\* a record is left out: nothing reads it)
addRunRecord(st, record) ==
  [st EXCEPT !.lastRun = "now", !.runs = Append(st.runs, record)]

\* filterUnaddressed as it was before the ignored list existed
filterUnaddressed_addressedOnly(cs, st) ==
  LET Keep(c) == ~Includes(st.addressedCommentIds, c.id)
  IN SelectSeq(cs, Keep)

\* filterUnaddressed that forgets the addressed list
filterUnaddressed_ignoredOnly(cs, st) ==
  LET Keep(c) == ~Includes(st.ignoredCommentIds, c.id)
  IN SelectSeq(cs, Keep)

filterUnaddressed(cs, st) ==
  LET Keep(c) == ~Includes(st.addressedCommentIds, c.id)
                 /\ ~Includes(st.ignoredCommentIds, c.id)
  IN SelectSeq(cs, Keep)

\* TypeError: state.addressedCommentIds.includes / state.ignoredCommentIds
\* .includes on undefined, in the callback of comments.filter (not called for
\* an empty list; && does not evaluate its right side for an addressed id)
filterUnaddressed_throws(cs, st) ==
  \E k \in 1..Len(cs) :
     \/ Undefined(st, "addressedCommentIds")
     \/ /\ ~Includes(st.addressedCommentIds, cs[k].id)
        /\ Undefined(st, "ignoredCommentIds")

\* TypeError: ...state.addressedCommentIds spreads undefined into an array
markAddressed_throws(st, commentIds) == Undefined(st, "addressedCommentIds")

markIgnored_throws(st, commentIds) == Undefined(st, "ignoredCommentIds")

\* TypeError: ...state.runs spreads undefined into an array
addRunRecord_throws(st, record) == Undefined(st, "runs")

(***************************************************************************)
(* Options (BusterOptions) as the CLI action handler builds them           *)
(***************************************************************************)
\* opts.authors ? opts.authors.split(',').map(trim) : undefined
\* an absent or empty --authors string gives undefined (supplied = FALSE);
\* any other string splits into at least one name
NoAuthors == [supplied |-> FALSE, list |-> <<>>]

\* the value of --authors on the command line: given or not, and its text as
\* a sequence of pieces: a login, "," or " "
AuthorsOption(given, text) == [given |-> given, text |-> text]

NoAuthorsOption == AuthorsOption(FALSE, <<>>)

EmptyAuthorsOption == AuthorsOption(TRUE, <<>>)

\* String.prototype.split(',')
RECURSIVE SplitComma(_)
SplitComma(text) ==
  LET commas == {i \in DOMAIN text : text[i] = ","}
      first == CHOOSE i \in commas : \A k \in commas : i <= k
  IN IF commas = {} THEN <<text>>
     ELSE <<SubSeq(text, 1, first - 1)>> \o SplitComma(SubSeq(text, first + 1, Len(text)))

\* String.prototype.trim
RECURSIVE Trim(_)
Trim(text) ==
  IF text = <<>> THEN text
  ELSE IF Head(text) = " " THEN Trim(Tail(text))
  ELSE IF text[Len(text)] = " " THEN Trim(SubSeq(text, 1, Len(text) - 1))
  ELSE text

\* the string a trimmed piece of the option is: empty, a login, or (several
\* pieces) a string that is nobody's login
NameOf(text) ==
  IF text = <<>> THEN "" ELSE IF Len(text) = 1 THEN text[1] ELSE "other"

\* a parse that splits the empty string too
ParseAuthors_emptyIsList(option) ==
  IF option.given
    THEN [supplied |-> TRUE,
          list |-> [i \in DOMAIN SplitComma(option.text) |->
                      NameOf(Trim(SplitComma(option.text)[i]))]]
    ELSE NoAuthors

\* action handler, line 467:
\* opts.authors ? opts.authors.split(',').map((a) => a.trim()) : undefined
\* (the empty string is falsy)
ParseAuthors(option) ==
  IF option.given /\ option.text # <<>>
    THEN [supplied |-> TRUE,
          list |-> [i \in DOMAIN SplitComma(option.text) |->
                      NameOf(Trim(SplitComma(option.text)[i]))]]
    ELSE NoAuthors

\* the --authors values the program is run with
AuthorsOptions ==
  {NoAuthorsOption, EmptyAuthorsOption, AuthorsOption(TRUE, <<" ", "bot-a", " ">>)}

AuthorsOpts == {ParseAuthors(option) : option \in AuthorsOptions}

\* authors?.length
HasAuthors(a) == a.supplied /\ Len(a.list) > 0

\* the options run reads
FixOptions ==
  [ maxRuns : 0..MaxRunsOpt,
    dryRun : BOOLEAN,
    validateComments : BOOLEAN,
    authors : AuthorsOpts,
    waitForReview : BOOLEAN,
    resolveAddressed : {FALSE} ]

\* the options runResolveAddressed reads are dryRun and authors; the others
\* are at their defaults
ResolveOptions ==
  [ maxRuns : {MaxRunsOpt},
    dryRun : BOOLEAN,
    validateComments : {FALSE},
    authors : AuthorsOpts,
    waitForReview : {FALSE},
    resolveAddressed : {TRUE} ]

Options == FixOptions \cup ResolveOptions

\* comments.filter((c) => !c.isResolved)
FilterUnresolved(cs) ==
  LET Open(c) == ~c.isResolved IN SelectSeq(cs, Open)

\* the author filter left out
FilterByAuthor_skipped(cs, a) == cs

\* authors?.length ? unresolved.filter((c) => authors.includes(c.author)) : unresolved
FilterByAuthor(cs, a) ==
  LET Allowed(c) == Includes(a.list, c.author)
  IN IF HasAuthors(a) THEN SelectSeq(cs, Allowed) ELSE cs

(***************************************************************************)
(* commitAndPush: the git outcome names the first step that fails          *)
(***************************************************************************)
GitOutcomes == {"statusFails", "clean", "commitFails", "pushFails", "pushed"}

commitAndPush(git) ==
  CASE git = "statusFails" -> Null   \* catch: return null
    [] git = "clean"       -> Null   \* !status.trim(): return null
    [] git = "commitFails" -> Null   \* catch: return null
    [] git = "pushFails"   -> Null   \* catch: return null
    [] git = "pushed"      -> "sha"

(***************************************************************************)
(* runAI (runCodex / runClaude): how the spawned actor process ends        *)
(***************************************************************************)
ProcOutcomes == {"exit0", "exitNonZero", "spawnError"}

\* close with code 0 resolves true; any other code, or the error event,
\* resolves false
runAI(proc) == proc = "exit0"

(***************************************************************************)
(* runValidation and runResolveCheck (ai.ts): what the classifier and the  *)
(* resolution checker make of the actor's output.  The output is a         *)
(* sequence of pieces of text:                                             *)
(*   "txt"  text without a brace and without the quoted key                *)
(*   "lb"   {          "rb"   }                                            *)
(*   "kt"   a member with the quoted key and a truthy value,               *)
(*          "valid": true   resp.  "addressed": true, ...                  *)
(*   "kf"   the same with a falsy value                                    *)
(*   "ox"   a member with another key                                      *)
(* Members are flat (no nested object); the commas between them are not    *)
(* modelled.                                                               *)
(***************************************************************************)
Pieces == {"txt", "lb", "rb", "kt", "kf", "ox"}

IsKey(piece) == piece \in {"kt", "kf"}

\* String.prototype.match found nothing (null); a match has three pieces at least
NoMatch == <<>>

\* textOutput.match(/\{[\s\S]*"valid"[\s\S]*\}/), and the same with
\* "addressed": the leftmost { that has the quoted key after it and a } after
\* the key; both [\s\S]* are greedy, so the match runs to the last } of the text
jsonMatch(text) ==
  LET rbs == {k \in 1..Len(text) : text[k] = "rb"}
  IN IF rbs = {} THEN NoMatch
     ELSE LET end == CHOOSE k \in rbs : \A k2 \in rbs : k2 <= k
              starts == {i \in 1..end : /\ text[i] = "lb"
                                        /\ \E j \in (i+1)..(end-1) : IsKey(text[j])}
          IN IF starts = {} THEN NoMatch
             ELSE SubSeq(text, CHOOSE i \in starts : \A i2 \in starts : i <= i2, end)

\* JSON.parse(jsonMatch[0]): ok is FALSE when it throws SyntaxError; key is the
\* truthiness of result.valid resp. result.addressed (a repeated key takes its
\* last value, an absent one is undefined)
JSONparse(m) ==
  LET n == Len(m)
      keys == {i \in 1..n : IsKey(m[i])}
  IN [ok  |-> /\ n >= 2
              /\ m[1] = "lb"
              /\ m[n] = "rb"
              /\ \A i \in 2..(n-1) : m[i] \in {"kt", "kf", "ox"},
      key |-> IF keys = {} THEN FALSE
              ELSE m[CHOOSE i \in keys : \A i2 \in keys : i2 <= i] = "kt"]

\* one run of the actor process: the error event (the process could not be
\* started), or close with the text it wrote
ActorRun(err, out) == [err |-> err, out |-> out]

\* the outputs the loop's actions try: prose, an answer, an answer inside
\* prose, a malformed record, and the prompt's example echoed before the
\* answer
ActorOutputs ==
  { <<"txt">>,
    <<"lb", "kt", "rb">>, <<"lb", "kf", "rb">>,
    <<"txt", "lb", "kf", "ox", "rb", "txt">>,
    <<"lb", "kf", "txt", "rb">>,
    <<"lb", "kf", "rb", "txt", "lb", "kt", "rb">> }

ActorRuns == {ActorRun(TRUE, <<>>)} \cup {ActorRun(FALSE, out) : out \in ActorOutputs}

\* runValidation that dismisses the comment when it cannot read the answer
runValidation_failClosed(run) ==
  IF run.err
    THEN [valid |-> FALSE, reason |-> "Validation failed, assuming valid"]
    ELSE LET m == jsonMatch(run.out)
         IN IF m = NoMatch
              THEN [valid |-> FALSE, reason |-> "Could not parse response, assuming valid"]
              ELSE IF JSONparse(m).ok
                THEN [valid |-> JSONparse(m).key, reason |-> "given"]
                ELSE [valid |-> FALSE, reason |-> "Parse error, assuming valid"]

\* runValidation, lines 319-346: reason "given" stands for result.reason || ''
runValidation(run) ==
  IF run.err
    THEN [valid |-> TRUE, reason |-> "Validation failed, assuming valid"]
    ELSE LET m == jsonMatch(run.out)
         IN IF m = NoMatch
              THEN [valid |-> TRUE, reason |-> "Could not parse response, assuming valid"]
              ELSE IF JSONparse(m).ok
                THEN [valid |-> JSONparse(m).key, reason |-> "given"]
                ELSE [valid |-> TRUE, reason |-> "Parse error, assuming valid"]

\* the reasons of a verdict that was assumed, not read
AssumedValid ==
  {"Validation failed, assuming valid", "Could not parse response, assuming valid",
   "Parse error, assuming valid"}

\* runResolveCheck that takes the comment for addressed when it cannot read
\* the answer
runResolveCheck_failOpen(run) ==
  IF run.err
    THEN [addressed |-> TRUE, explanation |-> "AI provider error"]
    ELSE LET m == jsonMatch(run.out)
         IN IF m = NoMatch
              THEN [addressed |-> TRUE, explanation |-> "Could not parse AI response"]
              ELSE IF JSONparse(m).ok
                THEN [addressed |-> JSONparse(m).key, explanation |-> "given"]
                ELSE [addressed |-> TRUE, explanation |-> "Parse error in AI response"]

\* runResolveCheck, lines 449-480: explanation "given" stands for
\* result.explanation || ''
runResolveCheck(run) ==
  IF run.err
    THEN [addressed |-> FALSE, explanation |-> "AI provider error"]
    ELSE LET m == jsonMatch(run.out)
         IN IF m = NoMatch
              THEN [addressed |-> FALSE, explanation |-> "Could not parse AI response"]
              ELSE IF JSONparse(m).ok
                THEN [addressed |-> JSONparse(m).key, explanation |-> "given"]
                ELSE [addressed |-> FALSE, explanation |-> "Parse error in AI response"]

\* the explanations of a verdict that was assumed, not read
AssumedUnaddressed ==
  {"AI provider error", "Could not parse AI response", "Parse error in AI response"}

(***************************************************************************)
(* State                                                                   *)
(***************************************************************************)
VARIABLES
  pc,          \* where the process is
  opts,        \* the options of the current invocation
  state,       \* the in-memory ledger of the current invocation
  disk,        \* the ledger file: NoFile or the last ledger written (StoreSpec:
               \* the directory of ledger files, one per path)
  runCount,    \* run: runCount
  comments,    \* run: comments of the current cycle
  unaddressed, \* run: the eligible comments of the current cycle
  validated,   \* run: validated (comments classified valid so far)
  ignoredIds,  \* run: ignoredIds (ids classified invalid so far)
  toFix,       \* run: toFix
  unresolved,  \* runResolveAddressed: unresolved
  resolvedCount,
  unresolvedCount,
  visited,     \* runResolveAddressed: how many comments the for loop has taken
  last,        \* what the last step did (event, ids handed to an actor, git outcome)
  fetches,     \* number of fetches of the current invocation
  persisted,   \* every id a successful saveState has written so far (StoreSpec:
               \* every pull request a ledger has been written for)
  savedBefore, \* persisted, as it was when the current invocation started
  output,      \* runValidation / runResolveCheck: output, when an actor process
               \* is looked at on its own (ActorSpec)
  elapsed,     \* waitForBugbotReview: Date.now() - start, in poll intervals
  threads,     \* the review threads of the pull request on the remote side,
               \* when the fetch is looked at on its own (FetchSpec)
  handed       \* the ids the current invocation has passed to the classifier
               \* and to the fix actor so far

vars == <<pc, opts, state, disk, runCount, comments, unaddressed, validated,
          ignoredIds, toFix, unresolved, resolvedCount, unresolvedCount, visited,
          last, fetches, persisted, savedBefore, output, elapsed, threads,
          handed>>

\* nothing has been passed to an actor
NoneHanded == [classifier |-> {}, fix |-> {}]

\* the process has ended: run returned (Done), process.exit(1) (Failed), or it
\* was terminated from outside (Killed)
Terminal == {"Done", "Failed", "Killed"}

\* ev: what happened; actor: the external actor the step invoked ("none" when
\* it invoked none); ids: the comments handed to that actor, or the fix batch
\* of a commit step; git: the git outcome of a commit step; verdict, reason:
\* what the classifier or the checker resolved to; checks: what the status
\* query of a poll returned; write: "ok" or "failed"
\* when the step called saveState; replied, resolved: the step posted a reply
\* to the thread, resolved the thread
Ev(e, actor, ids, git) ==
  [ev |-> e, actor |-> actor, ids |-> ids, git |-> git, verdict |-> FALSE,
   reason |-> "", write |-> "none", replied |-> FALSE, resolved |-> FALSE,
   checks |-> <<>>]

Handled(st) == Range(st.addressedCommentIds) \cup Range(st.ignoredCommentIds)

DiskIds == IF disk = NoFile THEN {} ELSE Handled(disk)

DefaultOpts ==
  [maxRuns |-> 0, dryRun |-> FALSE, validateComments |-> FALSE,
   authors |-> NoAuthors, waitForReview |-> FALSE, resolveAddressed |-> FALSE]

\* no process is running: nothing is in memory
NoProcess ==
  /\ opts' = DefaultOpts
  /\ state' = EmptyState
  /\ runCount' = 0
  /\ fetches' = 0
  /\ comments' = <<>>
  /\ unaddressed' = <<>>
  /\ validated' = <<>>
  /\ ignoredIds' = <<>>
  /\ toFix' = <<>>
  /\ unresolved' = <<>>
  /\ resolvedCount' = 0
  /\ unresolvedCount' = 0
  /\ visited' = 0
  /\ elapsed' = 0
  /\ handed' = NoneHanded

\* the variables of run and runResolveAddressed other than pc and last
runVars == <<opts, state, disk, runCount, comments, unaddressed, validated,
             ignoredIds, toFix, unresolved, resolvedCount, unresolvedCount, visited,
             fetches, persisted, savedBefore, elapsed, threads, handed>>

\* nothing has run yet: the process is at p, the ledger file is file
Start(p, file) ==
  /\ pc = p
  /\ opts = DefaultOpts
  /\ state = EmptyState
  /\ disk = file
  /\ runCount = 0
  /\ comments = <<>>
  /\ unaddressed = <<>>
  /\ validated = <<>>
  /\ ignoredIds = <<>>
  /\ toFix = <<>>
  /\ unresolved = <<>>
  /\ resolvedCount = 0
  /\ unresolvedCount = 0
  /\ visited = 0
  /\ last = Ev("none", "none", {}, Null)
  /\ fetches = 0
  /\ persisted = {}
  /\ savedBefore = {}
  /\ output = <<>>
  /\ elapsed = 0
  /\ threads = <<>>
  /\ handed = NoneHanded

Init == Start("Idle", NoFile)

\* the loop test off by one
LoopHead_offByOne(rc, o) == IF rc <= o.maxRuns THEN "Fetching" ELSE "Done"

\* the while (runCount < maxRuns) test at the head of the loop
LoopHead(rc, o) == IF rc < o.maxRuns THEN "Fetching" ELSE "Done"

\* the locals of a cycle go out of scope
ClearCycle ==
  /\ comments' = <<>>
  /\ unaddressed' = <<>>
  /\ validated' = <<>>
  /\ ignoredIds' = <<>>
  /\ toFix' = <<>>

ResolveVarsUnchanged ==
  UNCHANGED <<unresolved, resolvedCount, unresolvedCount, visited>>

(***************************************************************************)
(* Start of an invocation: the CLI action handler picks run or             *)
(* runResolveAddressed; both check the provider, parse the PR and check    *)
(* out the branch (process.exit(1) on failure); run then loads the ledger. *)
(***************************************************************************)
Invoke ==
  /\ pc = "Idle"
  /\ \E o \in Options, setupOk \in BOOLEAN :
       IF ~setupOk
         THEN /\ o = DefaultOpts
              /\ opts' = o
              /\ pc' = "Failed"
              /\ state' = EmptyState
              /\ last' = Ev("setupFailed", "none", {}, Null)
         ELSE /\ opts' = o
              /\ IF o.resolveAddressed
                   THEN /\ pc' = "ResolveFetching"
                        /\ state' = EmptyState
                        /\ last' = Ev("started", "none", {}, Null)
                   ELSE /\ state' = loadState(disk)
                        /\ pc' = LoopHead(0, o)
                        /\ last' = Ev("loaded", "none", {}, Null)
  /\ runCount' = 0
  /\ fetches' = 0
  /\ savedBefore' = persisted
  /\ ClearCycle
  /\ unresolved' = <<>>
  /\ resolvedCount' = 0
  /\ unresolvedCount' = 0
  /\ visited' = 0
  /\ handed' = NoneHanded
  /\ UNCHANGED <<disk, persisted, output, elapsed, threads>>

\* the ended process is gone; the ledger file stays
Exit ==
  /\ pc \in Terminal
  /\ pc' = "Idle"
  /\ NoProcess
  /\ last' = Ev("none", "none", {}, Null)
  /\ savedBefore' = persisted
  /\ UNCHANGED <<disk, persisted, output, threads>>

(***************************************************************************)
(* run, lines 268-306 and 317-365: loop head, fetch, filter, and the       *)
(* branch taken on the eligible set                                        *)
(***************************************************************************)
\* saveState whose exception is swallowed
AfterSave_swallowed(writeOk, next) == next

\* where the process goes after a saveState call: on when the write succeeded;
\* when it threw, run rejects and the handler's catch calls process.exit(1)
AfterSave(writeOk, next) == IF writeOk THEN next ELSE "Failed"

\* where run goes with a non-empty fix batch: if (dryRun) break, else runAI
AfterBatch(o) ==
  IF o.dryRun THEN "Done" ELSE "Acting"

\* a failed fetch that skips to the next cycle instead of leaving the loop
FetchFails_continues ==
  /\ pc = "Fetching"
  /\ runCount' = runCount + 1
  /\ fetches' = fetches + 1
  /\ pc' = LoopHead(runCount', opts)
  /\ last' = Ev("fetchFailed", "none", {}, Null)
  /\ ClearCycle
  /\ ResolveVarsUnchanged
  /\ UNCHANGED <<output, elapsed, threads, handed>>
  /\ UNCHANGED <<opts, state, disk, persisted, savedBefore>>

FetchFails ==
  /\ pc = "Fetching"
  /\ runCount' = runCount + 1
  /\ fetches' = fetches + 1
  /\ pc' = "Done"
  /\ last' = Ev("fetchFailed", "none", {}, Null)
  /\ ClearCycle
  /\ ResolveVarsUnchanged
  /\ UNCHANGED <<output, elapsed, threads, handed>>
  /\ UNCHANGED <<opts, state, disk, persisted, savedBefore>>

Fetch ==
  /\ pc = "Fetching"
  /\ runCount' = runCount + 1
  /\ fetches' = fetches + 1
  /\ \E present \in SUBSET Ids : \E resolved \in SUBSET present :
       LET cs == fetchPRComments(present, resolved)
           unres == FilterUnresolved(cs)
           byAuthor == FilterByAuthor(unres, opts.authors)
           una == filterUnaddressed(byAuthor, state)
       IN /\ comments' = cs
          /\ unaddressed' = una
          /\ validated' = <<>>
          /\ ignoredIds' = <<>>
          /\ IF Len(una) = 0
               THEN /\ toFix' = <<>>
                    /\ pc' = IF runCount' < opts.maxRuns THEN "Sleeping" ELSE "Done"
               ELSE IF opts.validateComments
                 THEN /\ toFix' = una
                      /\ pc' = "Classifying"
                 ELSE /\ toFix' = una
                      /\ pc' = AfterBatch(opts)
  /\ last' = Ev("fetched", "none", {}, Null)
  /\ ResolveVarsUnchanged
  /\ UNCHANGED <<output, elapsed, threads, handed>>
  /\ UNCHANGED <<opts, state, disk, persisted, savedBefore>>

(***************************************************************************)
(* run, lines 325-359: one validateComment call; after the last comment    *)
(* of the batch, markIgnored + saveState and the branch on toFix           *)
(***************************************************************************)
Classify ==
  /\ pc = "Classifying"
  /\ LET k == Len(validated) + Len(ignoredIds) + 1
         c == unaddressed[k]
     IN \E run \in ActorRuns, writeOk \in BOOLEAN :
          LET result == runValidation(run)
              v2 == IF result.valid THEN Append(validated, c) ELSE validated
              ig2 == IF result.valid THEN ignoredIds ELSE Append(ignoredIds, c.id)
              st2 == markIgnored(state, ig2)
              saves == k = Len(unaddressed) /\ Len(ig2) > 0
              nxt == AfterSave(writeOk, IF Len(v2) = 0 THEN LoopHead(runCount, opts)
                                                      ELSE AfterBatch(opts))
          IN \* saveState is not called: its outcome is not varied
             /\ ~saves => writeOk
             /\ handed' = [handed EXCEPT !.classifier = @ \cup {c.id}]
             /\ last' = [Ev("classified", "classifier", {c.id}, Null)
                           EXCEPT !.verdict = result.valid,
                                  !.reason = result.reason,
                                  !.write = IF ~saves THEN "none"
                                            ELSE IF writeOk THEN "ok" ELSE "failed"]
             /\ IF k < Len(unaddressed)
                  THEN /\ writeOk
                       /\ validated' = v2
                       /\ ignoredIds' = ig2
                       /\ pc' = "Classifying"
                       /\ UNCHANGED <<state, disk, persisted, toFix, comments, unaddressed>>
                  ELSE IF Len(ig2) > 0
                    THEN /\ state' = st2
                         /\ disk' = saveState(disk, st2, writeOk)
                         /\ persisted' = IF writeOk THEN persisted \cup Handled(st2)
                                                    ELSE persisted
                         /\ pc' = nxt
                         /\ IF nxt = "Failed" \/ Len(v2) = 0
                              THEN ClearCycle
                              ELSE /\ toFix' = v2
                                   /\ validated' = v2
                                   /\ ignoredIds' = ig2
                                   /\ UNCHANGED <<comments, unaddressed>>
                    ELSE /\ writeOk
                         /\ pc' = AfterBatch(opts)
                         /\ toFix' = v2
                         /\ validated' = v2
                         /\ ignoredIds' = ig2
                         /\ UNCHANGED <<state, disk, persisted, comments, unaddressed>>
  /\ ResolveVarsUnchanged
  /\ UNCHANGED <<output, elapsed, threads>>
  /\ UNCHANGED <<opts, runCount, fetches, savedBefore>>

(***************************************************************************)
(* run, lines 367-382: one runAI call with the prompt built from toFix     *)
(***************************************************************************)
\* runAI whose failure is not tested before the ledger update
RunAI_marksOnFailure ==
  /\ pc = "Acting"
  /\ \E proc \in ProcOutcomes :
       IF runAI(proc)
         THEN /\ pc' = "Committing"
              /\ last' = Ev("fixed", "fix", IdSet(toFix), Null)
              /\ UNCHANGED <<comments, unaddressed, validated, ignoredIds, toFix, state,
                             disk, persisted>>
         ELSE /\ pc' = "Done"
              /\ last' = Ev("fixFailed", "fix", IdSet(toFix), Null)
              /\ state' = markAddressed(state, MapId(toFix))
              /\ disk' = saveState(disk, state', TRUE)
              /\ persisted' = persisted \cup Handled(state')
              /\ ClearCycle
  /\ handed' = [handed EXCEPT !.fix = @ \cup IdSet(toFix)]
  /\ ResolveVarsUnchanged
  /\ UNCHANGED <<output, elapsed, threads>>
  /\ UNCHANGED <<opts, runCount, fetches, savedBefore>>

RunAI ==
  /\ pc = "Acting"
  /\ \E proc \in ProcOutcomes :
       IF runAI(proc)
         THEN /\ pc' = "Committing"
              /\ last' = Ev("fixed", "fix", IdSet(toFix), Null)
              /\ UNCHANGED <<comments, unaddressed, validated, ignoredIds, toFix>>
         ELSE /\ pc' = "Done"
              /\ last' = Ev("fixFailed", "fix", IdSet(toFix), Null)
              /\ ClearCycle
  /\ handed' = [handed EXCEPT !.fix = @ \cup IdSet(toFix)]
  /\ ResolveVarsUnchanged
  /\ UNCHANGED <<output, elapsed, threads>>
  /\ UNCHANGED <<opts, state, disk, runCount, fetches, persisted, savedBefore>>

(***************************************************************************)
(* run, lines 384-423: commitAndPush, markAddressed, addRunRecord,         *)
(* saveState, and the choice of the wait                                   *)
(***************************************************************************)

\* the next cycle starts without a wait
WaitBeforeNextRun_skipped(rc, o, sha) == LoopHead(rc, o)

\* lines 407-423, "Wait before next run": with runs left, the poll for the
\* review bot when asked for and something was pushed, the sleep otherwise;
\* with none left the loop test ends the run
WaitBeforeNextRun(rc, o, sha) ==
  IF rc < o.maxRuns
    THEN (IF o.waitForReview /\ sha # Null THEN "Polling" ELSE "Sleeping")
    ELSE "Done"

Commit ==
  /\ pc = "Committing"
  /\ \E git \in GitOutcomes, writeOk \in BOOLEAN :
       LET sha == commitAndPush(git)
           st1 == markAddressed(state, MapId(toFix))
           st2 == addRunRecord(st1, [commentsFound |-> Len(unaddressed),
                                     commentsAddressed |-> Len(toFix),
                                     commitSha |-> sha])
       IN /\ state' = st2
          /\ disk' = saveState(disk, st2, writeOk)
          /\ persisted' = IF writeOk THEN persisted \cup Handled(st2) ELSE persisted
          /\ last' = [Ev("committed", "none", IdSet(toFix), git)
                        EXCEPT !.write = IF writeOk THEN "ok" ELSE "failed"]
          /\ pc' = AfterSave(writeOk, WaitBeforeNextRun(runCount, opts, sha))
  /\ ClearCycle
  /\ ResolveVarsUnchanged
  /\ UNCHANGED <<output, elapsed, threads, handed>>
  /\ UNCHANGED <<opts, runCount, fetches, savedBefore>>

\* a wait after which the loop is left
Sleep_ends ==
  /\ pc = "Sleeping"
  /\ pc' = "Done"
  /\ last' = Ev("slept", "none", {}, Null)
  /\ ClearCycle
  /\ ResolveVarsUnchanged
  /\ UNCHANGED <<output, elapsed, threads, handed>>
  /\ UNCHANGED <<opts, state, disk, runCount, fetches, persisted, savedBefore>>

\* await sleep(interval * 60 * 1000), lines 302 and 421
Sleep ==
  /\ pc = "Sleeping"
  /\ pc' = LoopHead(runCount, opts)
  /\ last' = Ev("slept", "none", {}, Null)
  /\ ClearCycle
  /\ ResolveVarsUnchanged
  /\ UNCHANGED <<output, elapsed, threads, handed>>
  /\ UNCHANGED <<opts, state, disk, runCount, fetches, persisted, savedBefore>>

\* one check of `gh pr checks --json name,state,completedAt`: whether its
\* lower-cased name includes 'bugbot', includes 'cursor', and its state
Check(hasBugbot, hasCursor, st) ==
  [bugbot |-> hasBugbot, cursor |-> hasCursor, state |-> st]

\* the answers of the status query the poll is tried on: no checks (also what
\* `|| echo "[]"` yields when gh fails), checks of other names, the review
\* bot's check in each state, and two checks whose names match
CheckLists ==
  { <<>>,
    <<Check(FALSE, FALSE, "SUCCESS")>>,
    <<Check(TRUE, TRUE, "PENDING")>>,
    <<Check(FALSE, FALSE, "PENDING"), Check(TRUE, TRUE, "SUCCESS")>>,
    <<Check(TRUE, FALSE, "NEUTRAL")>>,
    <<Check(TRUE, TRUE, "FAILURE"), Check(FALSE, FALSE, "PENDING")>>,
    <<Check(FALSE, TRUE, "PENDING"), Check(TRUE, TRUE, "SUCCESS")>> }

\* c.name.toLowerCase().includes('bugbot') || ...includes('cursor')
NameMatches(c) == c.bugbot \/ c.cursor

\* find found nothing
NoCheck == [undefined |-> TRUE]

\* result.find(...): the first check whose name matches, NoCheck when none does
FindBugbot(result) ==
  LET hits == {i \in 1..Len(result) : NameMatches(result[i])} IN
    IF hits = {} THEN NoCheck
    ELSE result[CHOOSE i \in hits : \A k \in hits : i <= k]

\* bugbot.state === 'SUCCESS' || 'NEUTRAL' || 'FAILURE'
Completed(st) == st \in {"SUCCESS", "NEUTRAL", "FAILURE"}

\* one pass of the while loop of waitForBugbotReview after its test let it
\* in: TRUE when the function returns true, FALSE when it goes on to wait a
\* poll interval (query failed, no check found, check not completed)
PollOnce(queryOk, result) ==
  /\ queryOk
  /\ FindBugbot(result) # NoCheck
  /\ Completed(FindBugbot(result).state)

\* await waitForBugbotReview(...), lines 409-418, one pass of its loop per
\* step: the while test (false: return false, "continuing anyway"), the status
\* query, and either return true or the wait of one poll interval
Poll ==
  /\ pc = "Polling"
  /\ IF elapsed >= MaxPolls
       THEN /\ last' = Ev("reviewTimedOut", "none", {}, Null)
            /\ pc' = LoopHead(runCount, opts)
            /\ elapsed' = 0
            /\ ClearCycle
       ELSE \E queryOk \in BOOLEAN, result \in CheckLists :
              /\ ~queryOk => result = <<>>
              /\ IF PollOnce(queryOk, result)
                   THEN /\ last' = [Ev("reviewed", "none", {}, Null)
                                      EXCEPT !.checks = result]
                        /\ pc' = LoopHead(runCount, opts)
                        /\ elapsed' = 0
                        /\ ClearCycle
                   ELSE /\ last' = [Ev(IF queryOk THEN "polled" ELSE "pollFailed",
                                         "none", {}, Null)
                                      EXCEPT !.checks = result]
                        /\ pc' = "Polling"
                        /\ elapsed' = elapsed + 1
                        /\ UNCHANGED <<comments, unaddressed, validated,
                                       ignoredIds, toFix>>
  /\ ResolveVarsUnchanged
  /\ UNCHANGED <<output, threads, handed>>
  /\ UNCHANGED <<opts, state, disk, runCount, fetches, persisted, savedBefore>>

\* the process is terminated from outside while it runs
Kill ==
  /\ pc \notin Terminal \cup {"Idle"}
  /\ pc' = "Killed"
  /\ last' = Ev("killed", "none", {}, Null)
  /\ NoProcess
  /\ UNCHANGED <<disk, persisted, savedBefore, output, threads>>

(***************************************************************************)
(* runResolveAddressed                                                     *)
(***************************************************************************)
\* a resolution fetch that skips the comments the ledger file has handled
ResolveFetch_usesLedger ==
  /\ pc = "ResolveFetching"
  /\ \/ /\ pc' = "Failed"
        /\ last' = Ev("resolveFetchFailed", "none", {}, Null)
        /\ UNCHANGED <<comments, unresolved>>
     \/ \E present \in SUBSET Ids : \E resolved \in SUBSET present :
        \E commitsOk \in BOOLEAN :
          LET cs == fetchPRComments(present, resolved)
              unres == filterUnaddressed(FilterByAuthor(FilterUnresolved(cs), opts.authors),
                                        loadState(disk))
          IN /\ comments' = cs
             /\ unresolved' = unres
             /\ last' = Ev("fetched", "none", {}, Null)
             /\ IF Len(unres) = 0
                  THEN commitsOk /\ pc' = "Done"
                  ELSE pc' = IF commitsOk THEN "Resolving" ELSE "Failed"
  /\ UNCHANGED <<opts, state, disk, runCount, unaddressed, validated, ignoredIds,
                 toFix, resolvedCount, unresolvedCount, visited, fetches, persisted,
                 savedBefore, output, elapsed, threads, handed>>

\* lines 75-103: fetch (exit 1 on failure), filter, fetchPRCommits
ResolveFetch ==
  /\ pc = "ResolveFetching"
  /\ \/ /\ pc' = "Failed"
        /\ last' = Ev("resolveFetchFailed", "none", {}, Null)
        /\ UNCHANGED <<comments, unresolved>>
     \/ \E present \in SUBSET Ids : \E resolved \in SUBSET present :
        \E commitsOk \in BOOLEAN :
          LET cs == fetchPRComments(present, resolved)
              unres == FilterByAuthor(FilterUnresolved(cs), opts.authors)
          IN /\ comments' = cs
             /\ unresolved' = unres
             /\ last' = Ev("fetched", "none", {}, Null)
             /\ IF Len(unres) = 0
                  THEN commitsOk /\ pc' = "Done"
                  ELSE pc' = IF commitsOk THEN "Resolving" ELSE "Failed"
  /\ UNCHANGED <<opts, state, disk, runCount, unaddressed, validated, ignoredIds,
                 toFix, resolvedCount, unresolvedCount, visited, fetches, persisted,
                 savedBefore, output, elapsed, threads, handed>>

\* replyToThread and resolveThread: both succeed, or the first or the second
\* throws
GhOutcomes == {"ok", "replyFails", "resolveFails"}

\* counting a thread as resolved once the reply is posted
CountsResolved_replied(out) == out \in {"resolved", "wouldResolve", "resolveFails"}

\* the outcomes that reach resolvedCount++ (line 194)
CountsResolved(out) == out \in {"resolved", "wouldResolve"}

\* a catch block that goes on with the next comment without counting this one
CountsUnresolved_dropsFailures(out) == out \in {"fileMissing", "notAddressed"}

\* the outcomes that do unresolvedCount++: the missing file (123), the
\* thread whose reply or resolve call threw (190), the comment the checker
\* found not addressed (199)
CountsUnresolved(out) ==
  out \in {"fileMissing", "replyFails", "resolveFails", "notAddressed"}

\* an iteration that replies and resolves in a dry run as well
ResolveOutcome_ignoresDryRun(fileOk, addressed, dryRun, gh) ==
  IF ~fileOk THEN "fileMissing"
  ELSE IF ~addressed THEN "notAddressed"
  ELSE IF gh = "ok" THEN "resolved" ELSE gh

\* lines 113-200: the branch one iteration takes.  git show fails (122):
\* skipped; the checker says not addressed (195): nothing is sent; dry run
\* (177): a message only; otherwise replyToThread then resolveThread in one
\* try block (182-183), so that a reply that throws skips the resolve call
ResolveOutcome(fileOk, addressed, dryRun, gh) ==
  IF ~fileOk THEN "fileMissing"
  ELSE IF ~addressed THEN "notAddressed"
  ELSE IF dryRun THEN "wouldResolve"
  ELSE IF gh = "ok" THEN "resolved" ELSE gh

\* lines 108-201: one iteration of the per-comment loop
ResolveStep ==
  /\ pc = "Resolving"
  /\ LET k == visited + 1
         c == unresolved[k]
     IN \E fileOk \in BOOLEAN, run \in ActorRuns, gh \in GhOutcomes :
          LET result == runResolveCheck(run)
              out == ResolveOutcome(fileOk, result.addressed, opts.dryRun, gh)
          IN \* what is not consulted is not varied
             /\ ~fileOk => (run.err /\ gh = "ok")
             /\ (~result.addressed \/ opts.dryRun) => gh = "ok"
             /\ last' = [Ev(out, IF fileOk THEN "checker" ELSE "none",
                            IF fileOk THEN {c.id} ELSE {}, Null)
                           EXCEPT !.verdict = fileOk /\ result.addressed,
                                  !.reason = IF fileOk THEN result.explanation ELSE "",
                                  !.replied = out \in {"resolveFails", "resolved"},
                                  !.resolved = (out = "resolved")]
             /\ resolvedCount' = IF CountsResolved(out) THEN resolvedCount + 1
                                                         ELSE resolvedCount
             /\ unresolvedCount' = IF CountsUnresolved(out) THEN unresolvedCount + 1
                                                             ELSE unresolvedCount
             /\ visited' = k
             /\ pc' = IF k < Len(unresolved) THEN "Resolving" ELSE "Done"
  /\ UNCHANGED <<opts, state, disk, runCount, comments, unaddressed, validated,
                 ignoredIds, toFix, unresolved, fetches, persisted, savedBefore,
                 output, elapsed, threads, handed>>

Next ==
  \/ Invoke
  \/ Exit
  \/ FetchFails
  \/ Fetch
  \/ Classify
  \/ RunAI
  \/ Commit
  \/ Sleep
  \/ Poll
  \/ Kill
  \/ ResolveFetch
  \/ ResolveStep

Spec == Init /\ [][Next]_vars

\* the steps of the fix loop (at most one is enabled at a time)
LoopStep == Fetch \/ FetchFails \/ Classify \/ RunAI \/ Commit \/ Sleep \/ Poll

\* the loop is not held up for ever: an awaited actor, git command, timer or
\* poll comes back
FairSpec == Spec /\ WF_vars(LoopStep)

(***************************************************************************)
(* The program started on a ledger file that exists already: one with      *)
(* disjoint lists, and one it did not write itself (an earlier version, an *)
(* edited file) with id 1 in both lists.                                   *)
(***************************************************************************)
DisjointLedger ==
  [EmptyState EXCEPT !.addressedCommentIds = <<1>>]

OverlappingLedger ==
  [EmptyState EXCEPT !.addressedCommentIds = <<1>>, !.ignoredCommentIds = <<1>>]

LegacyInit == \E file \in {DisjointLedger, OverlappingLedger} : Start("Idle", file)

LegacySpec == LegacyInit /\ [][Next]_vars

(***************************************************************************)
(* One classifier or checker process on its own: it writes its output      *)
(* piece by piece (the data events) and ends with the error or the close   *)
(* event, whose handler resolves the promise.                              *)
(***************************************************************************)
ActorInit == Start("Spawned", NoFile)

\* proc.stdout.on('data') / proc.stderr.on('data'): output += chunk
ActorData ==
  /\ pc = "Spawned"
  /\ Len(output) < MaxOutput
  /\ \E piece \in Pieces : output' = Append(output, piece)
  /\ UNCHANGED <<pc, last, runVars>>

\* proc.on('error') / proc.on('close') of runValidation and of runResolveCheck
ActorEnd ==
  /\ pc = "Spawned"
  /\ pc' = "Resolved"
  /\ \E err \in BOOLEAN :
       \/ LET result == runValidation(ActorRun(err, output))
          IN last' = [Ev("validated", "classifier", {}, Null)
                        EXCEPT !.verdict = result.valid, !.reason = result.reason]
       \/ LET result == runResolveCheck(ActorRun(err, output))
          IN last' = [Ev("checked", "checker", {}, Null)
                        EXCEPT !.verdict = result.addressed,
                               !.reason = result.explanation]
  /\ UNCHANGED <<output, runVars>>

ActorNext == ActorData \/ ActorEnd

ActorSpec == ActorInit /\ [][ActorNext]_vars

(***************************************************************************)
(* The ledger functions of tracker.ts on their own: loadState on a file    *)
(* that holds a JSON object with any of the four fields missing, then one  *)
(* of filterUnaddressed, markAddressed, markIgnored, addRunRecord.         *)
(***************************************************************************)
\* the values a field of the file can have
IdLists == {<<>>} \cup {<<id>> : id \in Ids}

RunLists ==
  {<<>>, <<[commentsFound |-> 1, commentsAddressed |-> 1, commitSha |-> "sha"]>>}

\* the JSON objects the file can hold: each field missing or present
LedgerFiles ==
  {f \in [addressedCommentIds : IdLists, ignoredCommentIds : IdLists,
          lastRun : {"", "now"}, runs : RunLists, absent : SUBSET LedgerFields] :
     /\ Undefined(f, "addressedCommentIds") => f.addressedCommentIds = <<>>
     /\ Undefined(f, "ignoredCommentIds") => f.ignoredCommentIds = <<>>
     /\ Undefined(f, "lastRun") => f.lastRun = ""
     /\ Undefined(f, "runs") => f.runs = <<>>}

\* the files loadState cannot read or parse
BadFiles == {BadFile(kind, <<id>>) : kind \in {"unreadable", "unparseable"}, id \in Ids}

LedgerInit ==
  \E file \in LedgerFiles \cup BadFiles \cup {NoFile} : Start("Loading", file)

LedgerVarsUnchanged ==
  UNCHANGED <<opts, disk, runCount, comments, unaddressed, validated, ignoredIds,
              toFix, unresolved, resolvedCount, unresolvedCount, visited, fetches,
              persisted, savedBefore, output, elapsed, threads, handed>>

Load ==
  /\ pc = "Loading"
  /\ state' = loadState(disk)
  /\ pc' = "Loaded"
  /\ last' = Ev("loaded", "none", {}, Null)
  /\ LedgerVarsUnchanged

\* the result of a ledger function: the new ledger, or the TypeError it threw
Called(throws, st) ==
  /\ pc' = "Called"
  /\ state' = IF throws THEN state ELSE st
  /\ last' = Ev(IF throws THEN "TypeError" ELSE "returned", "none", {}, Null)
  /\ LedgerVarsUnchanged

CallFilterUnaddressed ==
  /\ pc = "Loaded"
  /\ \E cs \in {<<>>, <<Comment(1, FALSE)>>} :
       Called(filterUnaddressed_throws(cs, state), state)

CallMarkAddressed ==
  /\ pc = "Loaded"
  /\ \E ids \in IdLists :
       Called(markAddressed_throws(state, ids), markAddressed(state, ids))

CallMarkIgnored ==
  /\ pc = "Loaded"
  /\ \E ids \in IdLists :
       Called(markIgnored_throws(state, ids), markIgnored(state, ids))

CallAddRunRecord ==
  /\ pc = "Loaded"
  /\ LET record == [commentsFound |-> 1, commentsAddressed |-> 1, commitSha |-> Null]
     IN Called(addRunRecord_throws(state, record), addRunRecord(state, record))

\* the ids the text of a file has as addressed or ignored
HeldIds(file) ==
  IF file = NoFile THEN {}
  ELSE IF TryThrows(file) THEN Range(file.held)
  ELSE Range(file.addressedCommentIds) \cup Range(file.ignoredCommentIds)

\* saveState after the load or after one ledger function; savedBefore keeps
\* the ids of the file the write replaces
CallSaveState ==
  /\ pc \in {"Loaded", "Called"}
  /\ \E writeOk \in BOOLEAN :
       /\ disk' = saveState(disk, state, writeOk)
       /\ last' = [Ev("saved", "none", {}, Null)
                     EXCEPT !.write = IF writeOk THEN "ok" ELSE "failed"]
       /\ persisted' = IF writeOk THEN persisted \cup HeldIds(state) ELSE persisted
       /\ pc' = IF writeOk THEN "Saved" ELSE "Failed"
  /\ savedBefore' = HeldIds(disk)
  /\ UNCHANGED <<opts, state, runCount, comments, unaddressed, validated, ignoredIds,
                 toFix, unresolved, resolvedCount, unresolvedCount, visited, fetches,
                 output, elapsed, threads, handed>>

LedgerNext ==
  \/ Load
  \/ CallSaveState
  \/ CallFilterUnaddressed
  \/ CallMarkAddressed
  \/ CallMarkIgnored
  \/ CallAddRunRecord

LedgerSpec == LedgerInit /\ [][LedgerNext]_vars

(***************************************************************************)
(* The ledger store keyed by pull request (the tracker with getStatePath): *)
(* disk is the directory ~/.bugbot-buster here, a file or NoFile per path. *)
(***************************************************************************)
\* (owner, repo, number): pull requests that differ in one component each
PRInfos ==
  {[owner |-> "o1", repo |-> "r1", number |-> n] : n \in 1..MaxPR}
    \cup {[owner |-> "o2", repo |-> "r1", number |-> 1],
          [owner |-> "o1", repo |-> "r2", number |-> 1]}

\* the optional prInfo argument is not passed
NoPRInfo == [undefined |-> TRUE]

\* getStatePath that leaves the number out of the path
getStatePath_perRepo(prInfo) == <<prInfo.owner, prInfo.repo>>

\* join(STATE_DIR, owner, repo, `pr-${number}.json`), as its segments
getStatePath(prInfo) == <<prInfo.owner, prInfo.repo, prInfo.number>>

StatePaths == {getStatePath(prInfo) : prInfo \in PRInfos}

\* loadState(_workdir, prInfo?): the empty ledger without prInfo, else what
\* the file at the path holds
loadStatePR(dir, prInfo) ==
  IF prInfo = NoPRInfo THEN EmptyState ELSE loadState(dir[getStatePath(prInfo)])

\* saveState(_workdir, state, prInfo?): nothing without prInfo, else mkdirSync
\* and writeFileSync at the path
saveStatePR(dir, st, prInfo, writeOk) ==
  IF prInfo = NoPRInfo THEN dir
  ELSE [dir EXCEPT ![getStatePath(prInfo)] = saveState(@, st, writeOk)]

\* the ledgers that get saved
SavedLedgers == {markAddressed(EmptyState, <<1>>), markIgnored(EmptyState, <<2>>)}

StoreInit == Start("Store", [path \in StatePaths |-> NoFile])

StoreVarsUnchanged ==
  UNCHANGED <<pc, opts, runCount, comments, unaddressed, validated, ignoredIds,
              toFix, unresolved, resolvedCount, unresolvedCount, visited, fetches,
              savedBefore, output, elapsed, threads, handed>>

\* persisted holds the pull requests a save has written for
StoreSave ==
  /\ pc = "Store"
  /\ \E prInfo \in PRInfos \cup {NoPRInfo}, st \in SavedLedgers, writeOk \in BOOLEAN :
       /\ disk' = saveStatePR(disk, st, prInfo, writeOk)
       /\ persisted' = IF writeOk /\ prInfo # NoPRInfo THEN persisted \cup {prInfo}
                                                        ELSE persisted
       /\ state' = st
       /\ last' = [Ev("saved", "none", {prInfo}, Null)
                     EXCEPT !.write = IF writeOk THEN "ok" ELSE "failed"]
  /\ StoreVarsUnchanged

StoreLoad ==
  /\ pc = "Store"
  /\ \E prInfo \in PRInfos \cup {NoPRInfo} :
       /\ state' = loadStatePR(disk, prInfo)
       /\ last' = Ev("loaded", "none", {prInfo}, Null)
  /\ StoreVarsUnchanged
  /\ UNCHANGED <<disk, persisted>>

StoreNext == StoreSave \/ StoreLoad

StoreSpec == StoreInit /\ [][StoreNext]_vars

(***************************************************************************)
(* Properties                                                              *)
(***************************************************************************)
FixRunning == {"Fetching", "Classifying", "Acting", "Committing", "Sleeping", "Polling"}

\* the ids the eligibility rule of the specification selects
EligibleIds(cs, st, a) ==
  { cs[i].id : i \in { j \in DOMAIN cs :
       /\ ~cs[j].isResolved
       /\ (a.supplied => cs[j].author \in Range(a.list))
       /\ cs[j].id \notin Range(st.addressedCommentIds)
       /\ cs[j].id \notin Range(st.ignoredCommentIds) } }

\* C1: after the fetch and filter of a cycle, the eligible set is exactly the
\* fetched comments that are unresolved, by an allowed author when an
\* allow-list is supplied, and in neither the addressed nor the ignored set of
\* the ledger; each of them is in it once.
C1_EligibleSetExact ==
  (last.ev = "fetched" /\ ~opts.resolveAddressed) =>
     /\ IdSet(unaddressed) = EligibleIds(comments, state, opts.authors)
     /\ Len(unaddressed) = Cardinality(IdSet(unaddressed))

\* the scenario of the specification on two threads: 1 unresolved by an
\* allowed author, 2 unresolved by another author and already addressed,
\* allow-list = [bot-a]
C1_Witness ==
  /\ last.ev = "fetched"
  /\ ~opts.resolveAddressed
  /\ comments = <<Comment(1, FALSE), Comment(2, FALSE)>>
  /\ state.addressedCommentIds = <<2>>
  /\ opts.authors = [supplied |-> TRUE, list |-> <<"bot-a">>]
  /\ IdSet(unaddressed) = {1}

\* C2: with an allow-list supplied, every comment handed to the classifier, the
\* fix actor or the resolution checker is by an author on the list (exact,
\* case-sensitive match), in fix mode and in resolution mode.
C2_TrustBoundary ==
  (opts.authors.supplied /\ last.actor # "none") =>
     \A id \in last.ids : Includes(opts.authors.list, AuthorOf(id))

\* an actor was called while the fetch held an unresolved comment by an
\* author whose name differs from the listed one only in case
C2_Witness ==
  /\ opts.authors.supplied
  /\ last.actor \in {"classifier", "fix", "checker"}
  /\ last.ids # {}
  /\ \E i \in DOMAIN comments :
       ~comments[i].isResolved /\ comments[i].author = "Bot-A"

\* C3: when the commit or the push fails after the fix actor succeeded, no id
\* of the cycle's batch is added to the addressed set.
C3_NoAddressedWhenPushFails ==
  (last.ev = "committed" /\ last.git \in {"commitFails", "pushFails"}) =>
     last.ids \cap Range(state.addressedCommentIds) = {}

\* C4: an id that is in the addressed or ignored set of the ledger is not in
\* the eligible set of a later fetch and is not handed to the classifier or
\* the fix actor again.
C4_NoDoubleProcessing ==
  [][ /\ (last'.ev = "fetched" /\ ~opts'.resolveAddressed) =>
            IdSet(unaddressed') \cap Handled(state) = {}
      /\ (last'.actor \in {"classifier", "fix"}) =>
            last'.ids \cap Handled(state) = {} ]_vars

\* a later cycle of one invocation fetches, still unresolved, a comment the
\* invocation handled itself, and leaves it out
C4_Witness ==
  /\ last.ev = "fetched"
  /\ ~opts.resolveAddressed
  /\ runCount >= 2
  /\ \E i \in DOMAIN comments :
       /\ ~comments[i].isResolved
       /\ comments[i].id \in Handled(state) \ savedBefore
       /\ comments[i].id \notin IdSet(unaddressed)
  /\ unaddressed # <<>>

\* C5: an invocation of fix mode starts with a ledger that holds every id an
\* earlier invocation persisted, and hands none of them to the classifier or
\* the fix actor.
C5_RerunsSkipPersisted ==
  /\ (pc \in FixRunning \cup {"Done"} /\ ~opts.resolveAddressed /\ last.ev # "none")
        => savedBefore \subseteq Handled(state)
  /\ (last.actor \in {"classifier", "fix"}) => last.ids \cap savedBefore = {}

\* a second invocation calls an actor although the source still reports, as
\* unresolved, a comment an earlier invocation persisted
C5_Witness ==
  /\ last.actor \in {"classifier", "fix"}
  /\ savedBefore # {}
  /\ \E i \in DOMAIN comments :
       ~comments[i].isResolved /\ comments[i].id \in savedBefore

\* C6: while an invocation runs, the addressed set and the ignored set of the
\* in-memory ledger each only grow, and so do the two sets of the ledger file
\* over all invocations.
C6_Monotonic ==
  [][ /\ (pc \in FixRunning /\ pc' # "Killed") =>
            /\ Range(state.addressedCommentIds) \subseteq Range(state'.addressedCommentIds)
            /\ Range(state.ignoredCommentIds) \subseteq Range(state'.ignoredCommentIds)
      /\ (disk # NoFile) =>
            /\ disk' # NoFile
            /\ Range(disk.addressedCommentIds) \subseteq Range(disk'.addressedCommentIds)
            /\ Range(disk.ignoredCommentIds) \subseteq Range(disk'.ignoredCommentIds) ]_vars

\* one invocation grew the ledger in two cycles: a completed fix cycle, then
\* a classification checkpoint
C6_Witness ==
  /\ pc = "Done"
  /\ savedBefore = {}
  /\ runCount = 2
  /\ state.addressedCommentIds = <<1>>
  /\ state.ignoredCommentIds = <<2>>
  /\ disk = state

\* C7: when the fix actor fails the loop ends, the in-memory ledger and the
\* ledger file are unchanged (no id added, no run record), and every comment
\* of the batch passes the filter of the ledger a next invocation loads.
C7_ActionFailureLeavesBatch ==
  [][ (last'.ev = "fixFailed") =>
         /\ pc' = "Done"
         /\ state' = state
         /\ disk' = disk
         /\ filterUnaddressed(toFix, loadState(disk')) = toFix ]_vars

\* the actor fails on the batch left after a classification checkpoint
C7_Witness ==
  /\ last.ev = "fixFailed"
  /\ pc = "Done"
  /\ last.ids # {}
  /\ state.ignoredCommentIds # <<>>

\* C8: when the fetch of a cycle fails the loop ends in that step, no actor
\* is called, and the in-memory ledger and the ledger file are unchanged and
\* equal to each other (the last persisted ledger).
C8_FetchFailureAborts ==
  [][ (last'.ev = "fetchFailed") =>
         /\ pc' = "Done"
         /\ last'.actor = "none"
         /\ state' = state
         /\ disk' = disk
         /\ state' = loadState(disk') ]_vars

\* the fetch fails in the second cycle, after the first one persisted
C8_Witness ==
  /\ last.ev = "fetchFailed"
  /\ pc = "Done"
  /\ runCount = 2
  /\ state.runs # <<>>
  /\ state.ignoredCommentIds # <<>>

\* C9: commitAndPush returns the null sentinel only when the working tree has
\* no changes to commit.
C9_NullOnlyWhenClean ==
  (last.ev = "committed" /\ commitAndPush(last.git) = Null) => last.git = "clean"

\* C10: an invocation of fix mode fetches at most maxRuns times and, its steps
\* not being held up for ever, ends.
C10_BoundedTermination ==
  /\ [](~opts.resolveAddressed => fetches <= opts.maxRuns)
  /\ [](pc \in FixRunning => <>(pc \in Terminal))

\* the last allowed cycle still found new eligible comments and the loop ended
C10_Witness ==
  /\ pc = "Done"
  /\ last.ev = "committed"
  /\ fetches = opts.maxRuns
  /\ opts.maxRuns = MaxRunsOpt
  /\ Len(state.runs) = MaxRunsOpt

\* C11: with validation on, when the fix actor is about to be invoked every id
\* classified invalid in this cycle is in the ignored set of the ledger file,
\* and the batch handed to the actor is the comments classified valid, none of
\* them handled in the file: a process that dies here and is started again
\* loads the dismissed ids and still finds the valid comments eligible.
C11_CheckpointedClassification ==
  (pc = "Acting" /\ opts.validateComments) =>
     /\ Range(ignoredIds) \subseteq Range(loadState(disk).ignoredCommentIds)
     /\ toFix = validated
     /\ filterUnaddressed(toFix, loadState(disk)) = toFix

\* one comment of the batch was dismissed, the other goes to the fix actor
C11_Witness ==
  /\ pc = "Acting"
  /\ opts.validateComments
  /\ ignoredIds = <<1>>
  /\ IdSet(toFix) = {2}
  /\ Range(loadState(disk).ignoredCommentIds) = {1}

\* C12: while a batch is being classified, every id classified invalid so far
\* is already in the ignored set of the ledger file (so that a crash at this
\* point loses no classification).
C12_NoClassificationLost ==
  (pc = "Classifying") =>
     Range(ignoredIds) \subseteq Range(loadState(disk).ignoredCommentIds)

\* C13: wherever the loop is about to issue an external call (fetch, classify,
\* fix, commit/push) or to start a wait, the ledger file holds the in-memory
\* ledger.
C13_PersistedEqualsMemory ==
  (pc \in FixRunning) => state = loadState(disk)

\* the wait after a cycle that dismissed one comment and fixed the other
C13_Witness ==
  /\ pc = "Polling"
  /\ state.ignoredCommentIds = <<1>>
  /\ state.addressedCommentIds = <<2>>
  /\ Len(state.runs) = 1

\* C14: when the classifier's answer could not be read (no record in the
\* output, JSON.parse threw, the process could not be started) the comment is
\* classified valid: it stays in the fix batch and its id is in no ignored
\* list, in memory or in the file.
C14_FailOpen ==
  (last.ev = "classified" /\ last.reason \in AssumedValid) =>
     /\ last.verdict
     /\ last.ids \cap Range(ignoredIds) = {}
     /\ last.ids \cap Range(state.ignoredCommentIds) = {}
     /\ last.ids \cap Range(loadState(disk).ignoredCommentIds) = {}
     /\ (pc \in {"Classifying", "Acting"}) => last.ids \subseteq IdSet(validated)
     /\ (pc = "Acting") => last.ids \subseteq IdSet(toFix)

\* the first comment was dismissed, the answer for the second could not be
\* parsed: the second alone goes to the fix actor
C14_Witness ==
  /\ pc = "Acting"
  /\ last.ev = "classified"
  /\ last.reason = "Parse error, assuming valid"
  /\ last.ids = {2}
  /\ ignoredIds = <<1>>
  /\ IdSet(toFix) = {2}

\* C16: when the checker's answer could not be read (no record in the output,
\* JSON.parse threw, the process failed) the comment counts as not addressed:
\* no reply is posted and the thread is not resolved.
C16_FailClosed ==
  (last.actor = "checker" /\ last.reason \in AssumedUnaddressed) =>
     /\ ~last.verdict
     /\ last.ev = "notAddressed"
     /\ ~last.replied
     /\ ~last.resolved

\* a real (not dry) resolution run whose checker answer did not parse, after
\* a thread that was resolved
C16_Witness ==
  /\ opts.resolveAddressed
  /\ ~opts.dryRun
  /\ last.actor = "checker"
  /\ last.reason = "Parse error in AI response"
  /\ resolvedCount = 1
  /\ unresolvedCount = 1

\* C18: a saveState that fails ends the process with the failure status, and
\* the failed process does nothing more: no cycle, no actor, no wait.
C18_WriteFailureFatal ==
  /\ [](last.write = "failed" => pc = "Failed")
  /\ [][ (pc = "Failed") =>
            /\ pc' = "Idle"
            /\ last'.actor = "none"
            /\ fetches' = 0
            /\ disk' = disk ]_vars

\* the write after the second cycle's commit fails
C18_Witness ==
  /\ pc = "Failed"
  /\ last.ev = "committed"
  /\ last.write = "failed"
  /\ disk # NoFile
  /\ Len(disk.runs) = 1
  /\ Len(state.runs) = 2

\* the well-formed records with the key in a text, as <<first, last>> positions
Fragments(text) ==
  {f \in (1..Len(text)) \X (1..Len(text)) :
     /\ f[1] < f[2]
     /\ JSONparse(SubSeq(text, f[1], f[2])).ok
     /\ \E j \in f[1]..f[2] : IsKey(text[j])}

\* the verdict of the last of them
LastFragmentKey(text) ==
  LET fs == Fragments(text)
      f == CHOOSE g \in fs : \A h \in fs : h[1] <= g[1]
  IN JSONparse(SubSeq(text, f[1], f[2])).key

\* C15: when the output of an actor that ran holds a well-formed record after
\* an earlier (echoed) one, the classifier and the checker resolve to the
\* verdict of the last record.
C15_LastFragmentExtracted ==
  (/\ pc = "Resolved"
   /\ last.reason \notin {"Validation failed, assuming valid", "AI provider error"}
   /\ Cardinality(Fragments(output)) >= 2) =>
     /\ last.reason = "given"
     /\ last.verdict = LastFragmentKey(output)

\* C17: whatever fields the ledger file lacks, the ledger loadState returns
\* has no undefined field, and the ledger function called on it next does
\* not throw.
C17_MissingFieldsTolerated ==
  (pc \in {"Loaded", "Called"}) =>
     /\ state.absent = {}
     /\ last.ev # "TypeError"

InBoth(st) == Range(st.addressedCommentIds) \cap Range(st.ignoredCommentIds)

\* C20: no step puts an id in both lists, in memory or in the file, that was
\* not in both lists of the loaded file already (a disjoint ledger stays
\* disjoint); an id that is in both lists is never eligible nor in a fix
\* batch, and the fix loop fails on nothing but a failed setup or ledger write.
C20_NoOverlapIntroduced ==
  /\ [][ /\ InBoth(state') \subseteq InBoth(state) \cup InBoth(loadState(disk))
         /\ InBoth(loadState(disk')) \subseteq InBoth(loadState(disk)) ]_vars
  /\ [](((IdSet(unaddressed) \cup IdSet(toFix))
           \cap (InBoth(state) \cup InBoth(loadState(disk)))) = {})
  /\ []((pc = "Failed" /\ ~opts.resolveAddressed) =>
           (last.ev = "setupFailed" \/ last.write = "failed"))

\* the second cycle on the overlapping ledger: comment 1 is fetched again,
\* unresolved, and only comment 2 goes to the fix actor
C20_Witness ==
  /\ pc = "Acting"
  /\ runCount = 2
  /\ InBoth(state) = {1}
  /\ IdSet(FilterUnresolved(comments)) = {1, 2}
  /\ IdSet(toFix) = {2}

\* C21: a fetch of the fix loop whose eligible set is empty calls no actor;
\* with iterations left the loop waits and the wait is followed by the next
\* fetch, with none left the loop is done at once.
C21_EmptyEligible ==
  /\ [][ (last'.ev = "fetched" /\ ~opts'.resolveAddressed /\ unaddressed' = <<>>) =>
            /\ last'.actor = "none"
            /\ toFix' = <<>>
            /\ pc' = IF runCount' < opts'.maxRuns THEN "Sleeping" ELSE "Done" ]_vars
  /\ [][ (pc = "Sleeping" /\ last'.ev = "slept") =>
            /\ pc' = "Fetching"
            /\ runCount' = runCount
            /\ state' = state ]_vars

\* the second fetch is about to start after a first cycle that found nothing
\* eligible and waited
C21_Witness ==
  /\ pc = "Fetching"
  /\ last.ev = "slept"
  /\ runCount = 1
  /\ state = EmptyState
  /\ disk = NoFile

\* C22: with validation on, when the last comment of a batch is classified
\* and every comment of the batch was classified invalid, the fix actor is not
\* invoked and, iterations remaining, the loop goes to the wait before the
\* next fetch.
C22_AllInvalidWaits ==
  [][ (/\ pc = "Classifying"
       /\ last'.ev = "classified"
       /\ ~last'.verdict
       /\ validated = <<>>
       /\ Len(ignoredIds) + 1 = Len(unaddressed)
       /\ last'.write # "failed"
       /\ runCount < opts.maxRuns) =>
         pc' = "Sleeping" ]_vars

\* C23: the fix actor is invoked once per cycle, right after the fetch or the
\* classification, with the whole fix batch (the eligible comments, or with
\* validation those classified valid); the ids the cycle adds to the
\* addressed list are exactly the ids of that payload, and no other step of
\* the loop adds to the addressed list.
C23_OneFixPerCycle ==
  /\ [][ (last'.actor = "fix") =>
            /\ pc = "Acting"
            /\ last.ev \in {"fetched", "classified"}
            /\ last'.ids = IdSet(toFix)
            /\ toFix = (IF opts.validateComments THEN validated ELSE unaddressed)
            /\ last'.ids \cap Range(ignoredIds) = {} ]_vars
  /\ [][ (last'.ev = "committed") =>
            /\ last.ev = "fixed"
            /\ Range(state'.addressedCommentIds) \ Range(state.addressedCommentIds)
                 = last.ids ]_vars
  /\ [][ (pc \in FixRunning /\ pc' # "Killed"
          /\ state'.addressedCommentIds # state.addressedCommentIds) =>
            last'.ev = "committed" ]_vars

\* of two eligible comments one was dismissed; the other was the payload and
\* is the one id marked addressed
C23_Witness ==
  /\ last.ev = "committed"
  /\ last.ids = {2}
  /\ opts.validateComments
  /\ state.ignoredCommentIds = <<1>>
  /\ state.addressedCommentIds = <<2>>

\* C24: in a dry run of fix mode the fix actor is not invoked, nothing is
\* committed, and the ledger file holds what it held when the invocation
\* started.
C24_DryRunNoChanges ==
  (opts.dryRun /\ ~opts.resolveAddressed) =>
     /\ last.actor # "fix"
     /\ last.ev # "committed"
     /\ persisted = savedBefore
     /\ (pc \in FixRunning \cup {"Done"}) => state = loadState(disk)

\* C25: in resolution mode, when the reply was posted and resolving the
\* thread failed, the comment is counted unresolved and the loop goes on with
\* the next comment (or ends after the last); nothing is recorded about it,
\* and every invocation's work list is all the unresolved threads of its
\* fetch (allow-list applied), so the thread is checked again.
C25_ResolveFailureRetried ==
  /\ [][ (last'.ev = "resolveFails") =>
            /\ last'.replied
            /\ ~last'.resolved
            /\ unresolvedCount' = unresolvedCount + 1
            /\ resolvedCount' = resolvedCount
            /\ pc' = IF resolvedCount + unresolvedCount + 1 < Len(unresolved)
                       THEN "Resolving" ELSE "Done"
            /\ disk' = disk ]_vars
  /\ [][ (pc = "ResolveFetching" /\ last'.ev = "fetched") =>
            unresolved' = FilterByAuthor(FilterUnresolved(comments'), opts.authors) ]_vars

\* the first of two threads got its reply but could not be resolved; the
\* second is checked next
C25_Witness ==
  /\ pc = "Resolving"
  /\ last.ev = "resolveFails"
  /\ last.ids = {1}
  /\ unresolvedCount = 1
  /\ resolvedCount = 0
  /\ Len(unresolved) = 2

\* C26: an invocation in resolution mode holds no loaded ledger, its work
\* list is all the unresolved threads of the fetch (allow-list applied)
\* whatever the ledger file has handled, and no step of it writes the file.
C26_ResolveLeavesLedger ==
  /\ [](opts.resolveAddressed =>
          /\ state = EmptyState
          /\ persisted = savedBefore
          /\ (pc = "Resolving") =>
                unresolved = FilterByAuthor(FilterUnresolved(comments), opts.authors))
  /\ [][ opts.resolveAddressed => disk' = disk ]_vars

\* a thread whose comment the ledger file has as addressed is checked and
\* resolved; the file is as the fix run left it
C26_Witness ==
  /\ opts.resolveAddressed
  /\ last.ev = "resolved"
  /\ last.ids = {1}
  /\ disk # NoFile
  /\ disk.addressedCommentIds = <<1>>
  /\ Len(disk.runs) = 1


(***************************************************************************)
(* The poll between cycles                                                 *)
(***************************************************************************)

\* some check of the list whose name matches is in a completed state
SomeMatchCompleted(result) ==
  \E i \in 1..Len(result) : NameMatches(result[i]) /\ Completed(result[i].state)

\* a status query that shows a matching check completed makes the poll return
\* true at once
PollReturnsOnCompleted ==
  [][ (pc = "Polling" /\ last'.ev \in {"polled", "reviewed"}
       /\ SomeMatchCompleted(last'.checks)) => last'.ev = "reviewed" ]_vars

\* once the timeout has elapsed the poll returns false, and the loop goes on
\* to its next cycle (or ends with its last one) all the same
PollTimesOut ==
  [][ (pc = "Polling" /\ elapsed >= MaxPolls /\ pc' # "Killed") =>
        /\ last'.ev = "reviewTimedOut"
        /\ pc' = (IF runCount < opts.maxRuns THEN "Fetching" ELSE "Done")
        /\ state' = state /\ disk' = disk ]_vars

\* a status query that fails is one more "not finished yet": the poll waits
\* an interval and asks again
PollToleratesFailure ==
  [][ last'.ev = "pollFailed" =>
        pc = "Polling" /\ pc' = "Polling" /\ elapsed' = elapsed + 1 ]_vars

\* the poll ends
PollEnds == (pc = "Polling") ~> (pc # "Polling")

\* C27: the poll for the review bot between two cycles always ends: it returns
\* true as soon as a check whose name matches reports a completed state,
\* returns false once its timeout has elapsed, takes a failed status query for
\* "not finished yet", and a timeout does not stop the loop.
C27_PollEnds ==
  /\ PollReturnsOnCompleted
  /\ PollTimesOut
  /\ PollToleratesFailure
  /\ PollEnds


(***************************************************************************)
(* One call at a time                                                      *)
(***************************************************************************)

\* where the process stands while it awaits the call of an actor
AwaitsActor(actor) ==
  CASE actor = "classifier" -> {"Classifying"}
    [] actor = "fix"        -> {"Acting"}
    [] actor = "checker"    -> {"Resolving"}
    [] OTHER                -> {}

\* C28: within one process at most one call of an external actor is under way
\* at any time (a classifier or checker call is about one comment and comes
\* back before the next step; an actor comes back only where the process was
\* awaiting it, never during a fetch, a persist or a wait), and the fetch of a
\* cycle starts only after the persist and the wait of the cycle before are
\* over: it never follows a commit or an unfinished poll directly, and the
\* ledger in memory is the one on disk when it starts.
C28_Sequential ==
  /\ [](last.actor \in {"classifier", "checker"} => Cardinality(last.ids) = 1)
  /\ [][ last'.actor # "none" => pc \in AwaitsActor(last'.actor) ]_vars
  /\ [][ (~opts'.resolveAddressed /\ last'.ev \in {"fetched", "fetchFailed"}) =>
           /\ pc = "Fetching"
           /\ last.ev \in {"loaded", "slept", "reviewed", "reviewTimedOut", "classified"}
           /\ last.write # "failed"
           /\ elapsed = 0
           /\ state = loadState(disk) ]_vars

\* the second cycle has fetched after the first one committed, saved and
\* waited for the review, and a classifier call is under way
C28_Witness ==
  /\ last.ev = "fetched"
  /\ fetches = 2
  /\ pc = "Classifying"
  /\ opts.waitForReview
  /\ state.addressedCommentIds = <<1>>
  /\ Len(state.runs) = 1
  /\ disk = state
  /\ MapId(unaddressed) = <<2>>


(***************************************************************************)
(* Two invocations of run at once on the same pull request, in the same    *)
(* working directory: each has its own control point, ledger in memory,    *)
(* runCount and batch (pc, state, runCount, unaddressed and toFix are      *)
(* functions of the invocation here); the ledger file is shared.  Both run *)
(* the fix loop with the default options and MaxRunsOpt cycles; the waits  *)
(* between cycles are timers and are folded into the step before them.     *)
(***************************************************************************)
Invocations == {"a", "b"}

RaceOpts == [DefaultOpts EXCEPT !.maxRuns = MaxRunsOpt]

RaceInit ==
  /\ pc = [p \in Invocations |-> "Idle"]
  /\ opts = RaceOpts
  /\ state = [p \in Invocations |-> EmptyState]
  /\ disk = NoFile
  /\ runCount = [p \in Invocations |-> 0]
  /\ comments = <<>>
  /\ unaddressed = [p \in Invocations |-> <<>>]
  /\ validated = <<>>
  /\ ignoredIds = <<>>
  /\ toFix = [p \in Invocations |-> <<>>]
  /\ unresolved = <<>>
  /\ resolvedCount = 0
  /\ unresolvedCount = 0
  /\ visited = 0
  /\ last = Ev("none", "none", {}, Null)
  /\ fetches = 0
  /\ persisted = {}
  /\ savedBefore = {}
  /\ output = <<>>
  /\ elapsed = 0
  /\ threads = <<>>
  /\ handed = NoneHanded

RaceVarsUnchanged ==
  UNCHANGED <<opts, comments, validated, ignoredIds, unresolved, resolvedCount,
              unresolvedCount, visited, fetches, savedBefore, output, elapsed,
              threads, handed>>

\* run, line 261: let state = loadState(workdir), once, before the loop
RaceLoad(p) ==
  /\ pc[p] = "Idle"
  /\ state' = [state EXCEPT ![p] = loadState(disk)]
  /\ pc' = [pc EXCEPT ![p] = LoopHead(0, opts)]
  /\ last' = Ev("loaded", "none", {}, Null)
  /\ RaceVarsUnchanged
  /\ UNCHANGED <<disk, persisted, runCount, unaddressed, toFix>>

\* run, lines 267-320: runCount++, the fetch and the filters, against the
\* invocation's own ledger
RaceFetch(p) ==
  /\ pc[p] = "Fetching"
  /\ runCount' = [runCount EXCEPT ![p] = @ + 1]
  /\ \E present \in SUBSET Ids :
       LET cs == fetchPRComments(present, {})
           byAuthor == FilterByAuthor(FilterUnresolved(cs), opts.authors)
           una == filterUnaddressed(byAuthor, state[p])
       IN /\ unaddressed' = [unaddressed EXCEPT ![p] = una]
          /\ toFix' = [toFix EXCEPT ![p] = una]
          /\ pc' = [pc EXCEPT ![p] = IF Len(una) = 0 THEN LoopHead(runCount'[p], opts)
                                                     ELSE "Acting"]
  /\ last' = Ev("fetched", "none", {}, Null)
  /\ RaceVarsUnchanged
  /\ UNCHANGED <<state, disk, persisted>>

\* run, lines 367-382: the fix actor on the batch
RaceRunAI(p) ==
  /\ pc[p] = "Acting"
  /\ \E proc \in ProcOutcomes :
       /\ pc' = [pc EXCEPT ![p] = IF runAI(proc) THEN "Committing" ELSE "Done"]
       /\ last' = Ev(IF runAI(proc) THEN "fixed" ELSE "fixFailed", "fix",
                     IdSet(toFix[p]), Null)
  /\ RaceVarsUnchanged
  /\ UNCHANGED <<state, disk, persisted, runCount, unaddressed, toFix>>

\* run, lines 384-405: commitAndPush (taken to push: what git did has no
\* bearing on the ledger's ids), markAddressed and addRunRecord on the
\* invocation's ledger, saveState of that whole ledger
RaceCommit(p) ==
  /\ pc[p] = "Committing"
  /\ \E git \in {"pushed"}, writeOk \in BOOLEAN :
       LET sha == commitAndPush(git)
           st1 == markAddressed(state[p], MapId(toFix[p]))
           st2 == addRunRecord(st1, [commentsFound |-> Len(unaddressed[p]),
                                     commentsAddressed |-> Len(toFix[p]),
                                     commitSha |-> sha])
       IN /\ state' = [state EXCEPT ![p] = st2]
          /\ disk' = saveState(disk, st2, writeOk)
          /\ persisted' = IF writeOk THEN persisted \cup Handled(st2) ELSE persisted
          /\ last' = [Ev("committed", "none", IdSet(toFix[p]), git)
                        EXCEPT !.write = IF writeOk THEN "ok" ELSE "failed"]
          /\ pc' = [pc EXCEPT ![p] = AfterSave(writeOk, LoopHead(runCount[p], opts))]
  /\ RaceVarsUnchanged
  /\ UNCHANGED <<runCount, unaddressed, toFix>>

RaceNext ==
  \E p \in Invocations :
    \/ RaceLoad(p)
    \/ RaceFetch(p)
    \/ RaceRunAI(p)
    \/ RaceCommit(p)

RaceSpec == RaceInit /\ [][RaceNext]_vars

\* the ids a successful save wrote at some time that the file no longer holds
LostIds == persisted \ DiskIds

\* C29: two invocations at once on the same pull request race on the ledger
\* file, because each loads the ledger once at its start and later writes its
\* whole copy: after its load an invocation's ledger gains only the ids it
\* marks itself, a successful save makes the file equal to the saver's copy,
\* and an id is lost from the file only by the successful save of an
\* invocation whose copy does not hold it.  (The interleaving that loses an
\* id is C29_Witness.)
C29_LedgerRace ==
  /\ [][ \A p \in Invocations :
           pc[p] # "Idle" =>
             Handled(state'[p]) =
               Handled(state[p]) \cup (IF pc[p] = "Committing" /\ pc'[p] # "Committing"
                                         THEN IdSet(toFix[p]) ELSE {}) ]_vars
  /\ [][ \A p \in Invocations :
           (pc[p] = "Committing" /\ pc'[p] # "Committing" /\ last'.write = "ok")
             => disk' = state'[p] ]_vars
  /\ [][ (persisted' \ (IF disk' = NoFile THEN {} ELSE Handled(disk'))) # LostIds =>
           \E p \in Invocations :
             /\ pc[p] = "Committing" /\ pc'[p] # "Committing" /\ last'.write = "ok"
             /\ (persisted' \ Handled(disk')) \cap Handled(state'[p]) = {} ]_vars

\* both invocations have ended; id 1, which one of them persisted, is not in
\* the ledger the other one wrote last
C29_Witness ==
  /\ \A p \in Invocations : pc[p] = "Done"
  /\ persisted = {1, 2}
  /\ DiskIds = {2}
  /\ LostIds = {1}
  /\ \E p \in Invocations : 1 \in Handled(state[p])


(***************************************************************************)
(* fetchPRComments on its own, against a pull request whose threads are    *)
(* opened, replied to and resolved on the remote side.  The pull request   *)
(* can have one thread more than a page of the query holds.                *)
(***************************************************************************)
MaxThreads == ReviewThreadsFirst + 1

\* a thread holds its originating comment and at most one reply here
MaxComments == 2

FetchInit == Start("Remote", NoFile)

FetchVarsUnchanged ==
  UNCHANGED <<pc, opts, state, disk, runCount, unaddressed, validated, ignoredIds,
              toFix, unresolved, resolvedCount, unresolvedCount, visited, fetches,
              persisted, savedBefore, output, elapsed, handed>>

\* a reviewer opens a thread: it is the last in the order of the query
OpenThread ==
  /\ pc = "Remote"
  /\ Len(threads) < MaxThreads
  /\ LET id == Len(threads) + 1
     IN /\ threads' = Append(threads, Thread(id, FALSE, <<ThreadComment(id)>>))
        /\ last' = Ev("opened", "none", {id}, Null)
  /\ FetchVarsUnchanged
  /\ UNCHANGED comments

\* somebody replies in a thread: the reply comes after the originating comment
ReplyInThread ==
  /\ pc = "Remote"
  /\ \E i \in DOMAIN threads :
       /\ Len(threads[i].comments) < MaxComments
       /\ threads' = [threads EXCEPT ![i].comments =
                        Append(@, ThreadComment(threads[i].id + MaxThreads))]
       /\ last' = Ev("repliedTo", "none", {threads[i].id}, Null)
  /\ FetchVarsUnchanged
  /\ UNCHANGED comments

\* somebody resolves a thread
MarkThreadResolved ==
  /\ pc = "Remote"
  /\ \E i \in DOMAIN threads :
       /\ ~threads[i].isResolved
       /\ threads' = [threads EXCEPT ![i].isResolved = TRUE]
       /\ last' = Ev("threadResolved", "none", {threads[i].id}, Null)
  /\ FetchVarsUnchanged
  /\ UNCHANGED comments

\* fetchPRComments(pr)
FetchThreads ==
  /\ pc = "Remote"
  /\ comments' = fetchPRCommentsOf(threads)
  /\ last' = Ev("fetched", "none", {}, Null)
  /\ FetchVarsUnchanged
  /\ UNCHANGED threads

FetchNext == OpenThread \/ ReplyInThread \/ MarkThreadResolved \/ FetchThreads

FetchSpec == FetchInit /\ [][FetchNext]_vars

\* C30: fetchPRComments returns, for every review thread of the pull request,
\* exactly one comment: the thread's first comment with the thread's current
\* resolved flag; no thread is missing and none gives more than one comment.
C30_OneCommentPerThread ==
  (pc = "Remote" /\ last.ev = "fetched") =>
    /\ Len(comments) = Len(threads)
    /\ \A i \in DOMAIN threads :
         comments[i] = Comment(threads[i].comments[1].databaseId, threads[i].isResolved)


\* within the first page the fetch is exact: a pull request with no more
\* threads than the page holds gets one comment per thread, the first one,
\* with the thread's flag; beyond it the result is the first page's
FirstPageComplete ==
  (pc = "Remote" /\ last.ev = "fetched") =>
    /\ Len(comments) = Len(reviewThreads(threads))
    /\ Len(threads) <= ReviewThreadsFirst => Len(comments) = Len(threads)
    /\ \A i \in DOMAIN comments :
         comments[i] = Comment(threads[i].comments[1].databaseId, threads[i].isResolved)


(***************************************************************************)
(* Run records                                                             *)
(***************************************************************************)
IsPrefix(s, t) == Len(s) <= Len(t) /\ SubSeq(t, 1, Len(s)) = s

\* the run records the ledger file holds
DiskRuns == IF disk = NoFile THEN <<>> ELSE disk.runs

\* C31: run records are only ever appended and never changed: the run
\* sequence of the ledger (in the memory of a running invocation, and in the
\* file, across invocations) at one point is a prefix of it at every later
\* point; a step that only marks ignored ids leaves it as it is, and a commit
\* step, which marks addressed ids and adds its record, adds that one record
\* at the end.
C31_RunsAppendOnly ==
  /\ [][ (pc \notin {"Idle"} \cup Terminal /\ pc' # "Killed") =>
           IsPrefix(state.runs, state'.runs) ]_vars
  /\ [][ /\ IsPrefix(DiskRuns, IF disk' = NoFile THEN <<>> ELSE disk'.runs)
         /\ disk # NoFile => disk' # NoFile ]_vars
  /\ [][ last'.ev = "classified" => state'.runs = state.runs ]_vars
  /\ [][ last'.ev = "committed" =>
           /\ Len(state'.runs) = Len(state.runs) + 1
           /\ markAddressed(state, MapId(toFix)).runs = state.runs
           /\ markIgnored(state, MapId(toFix)).runs = state.runs ]_vars

\* the second cycle of an invocation has added its record after the first
\* cycle's (pushed there, nothing to commit here), and the file holds both
C31_Witness ==
  /\ last.ev = "committed"
  /\ Len(state.runs) = 2
  /\ state.runs[1].commitSha = "sha"
  /\ state.runs[2].commitSha = Null
  /\ state.addressedCommentIds = <<1, 2>>
  /\ disk = state


\* the step added a run record to the ledger in memory
RecordAdded == Len(state'.runs) = Len(state.runs) + 1

\* the record a step added
NewRecord == state'.runs[Len(state'.runs)]

\* a step of the fix loop of a running invocation
InLoop == pc \in FixRunning /\ pc' # "Killed"

\* a record is added by the commit step and by no other step of the loop (not
\* by a fetch that finds nothing eligible, a classification, a dry run's end,
\* a failed fix or fetch, a wait), one per step; its found-count is the size
\* of the eligible set, its addressed-count the size of the fix batch, its
\* commit identifier what commitAndPush returned
RecordPerCommitStep ==
  [][ InLoop =>
        /\ RecordAdded \/ state'.runs = state.runs
        /\ RecordAdded <=> last'.ev = "committed"
        /\ RecordAdded =>
             /\ pc = "Committing"
             /\ NewRecord.commentsFound = Len(unaddressed)
             /\ NewRecord.commentsAddressed = Len(toFix)
             /\ NewRecord.commentsAddressed <= NewRecord.commentsFound
             /\ NewRecord.commentsAddressed > 0
             /\ NewRecord.commitSha = commitAndPush(last'.git)
             /\ ~opts.dryRun ]_vars

\* C32: exactly one run record is added per cycle that completes the fix and
\* the commit step, and none for a cycle without eligible comments, with all
\* comments classified invalid, of a dry run, or that failed; the record has
\* the size of the eligible set as found-count, the size of the fix batch as
\* addressed-count (never more than the found-count), and a commit identifier
\* exactly when commitAndPush returned one.
C32_OneRecordPerCompletedCycle ==
  /\ RecordPerCommitStep
  /\ [][ (InLoop /\ RecordAdded) => last'.git \in {"clean", "pushed"} ]_vars


(***************************************************************************)
(* buildPrompt (ai.ts) on its own.  A comment is its id and its path here; *)
(* the prompt is the sequence of its lines: the opening line, per file a   *)
(* heading "## file", one item "- body (line n)" per comment and an empty  *)
(* line, and the closing instructions.                                     *)
(***************************************************************************)
\* the longest batch buildPrompt is tried on
MaxBatch == 4

Paths == {"a.ts", "b.ts", "c.ts"}

PromptComment(id, path) == [id |-> id, path |-> path]

PromptLine(kind, file, id) == [kind |-> kind, file |-> file, id |-> id]

\* byFile.get(comment.path) ?? []; existing.push(comment); byFile.set(...):
\* a Map keeps its keys in the order they were first set
MapPush(byFile, comment) ==
  IF \E i \in DOMAIN byFile : byFile[i].file = comment.path
    THEN [i \in DOMAIN byFile |->
            IF byFile[i].file = comment.path
              THEN [byFile[i] EXCEPT !.comments = Append(@, comment)]
              ELSE byFile[i]]
    ELSE Append(byFile, [file |-> comment.path, comments |-> <<comment>>])

\* the first loop, lines 10-15
RECURSIVE GroupByFile(_, _)
GroupByFile(byFile, cs) ==
  IF cs = <<>> THEN byFile
  ELSE GroupByFile(MapPush(byFile, Head(cs)), Tail(cs))

\* lines 20-25: the heading, the items, the empty line of one file
FileSection(entry) ==
  <<PromptLine("heading", entry.file, 0)>>
  \o [i \in DOMAIN entry.comments |-> PromptLine("item", entry.file, entry.comments[i].id)]
  \o <<PromptLine("blank", "", 0)>>

RECURSIVE FileSections(_)
FileSections(byFile) ==
  IF byFile = <<>> THEN <<>>
  ELSE FileSection(Head(byFile)) \o FileSections(Tail(byFile))

\* a prompt with a heading for every comment, in input order
buildPrompt_ungrouped(cs) ==
  <<PromptLine("intro", "", 0)>>
  \o FileSections([i \in DOMAIN cs |-> [file |-> cs[i].path, comments |-> <<cs[i]>>]])
  \o <<PromptLine("outro", "", 0)>>

buildPrompt(cs) ==
  <<PromptLine("intro", "", 0)>>
  \o FileSections(GroupByFile(<<>>, cs))
  \o <<PromptLine("outro", "", 0)>>

\* the batches: up to MaxBatch comments with ids 1, 2, ... and any paths
Batches ==
  UNION {[1..n -> Paths] : n \in 0..MaxBatch}

PromptInit ==
  /\ \E paths \in Batches :
       toFix = [i \in DOMAIN paths |-> PromptComment(i, paths[i])]
  /\ pc = "Prompting"
  /\ opts = DefaultOpts
  /\ state = EmptyState
  /\ disk = NoFile
  /\ runCount = 0
  /\ comments = <<>>
  /\ unaddressed = <<>>
  /\ validated = <<>>
  /\ ignoredIds = <<>>
  /\ unresolved = <<>>
  /\ resolvedCount = 0
  /\ unresolvedCount = 0
  /\ visited = 0
  /\ last = Ev("none", "none", {}, Null)
  /\ fetches = 0
  /\ persisted = {}
  /\ savedBefore = {}
  /\ output = <<>>
  /\ elapsed = 0
  /\ threads = <<>>
  /\ handed = NoneHanded

\* const prompt = buildPrompt(toFix)
BuildPrompt ==
  /\ pc = "Prompting"
  /\ output' = buildPrompt(toFix)
  /\ pc' = "Prompted"
  /\ last' = Ev("prompted", "none", IdSet(toFix), Null)
  /\ UNCHANGED <<opts, state, disk, runCount, comments, unaddressed, validated,
                 ignoredIds, toFix, unresolved, resolvedCount, unresolvedCount, visited,
                 fetches, persisted, savedBefore, elapsed, threads, handed>>

PromptNext == BuildPrompt

PromptSpec == PromptInit /\ [][PromptNext]_vars

\* the lines of the prompt that are the item of comment id
ItemLines(id) == {k \in DOMAIN output : output[k].kind = "item" /\ output[k].id = id}

\* the lines that are the heading of file
HeadingLines(file) ==
  {k \in DOMAIN output : output[k].kind = "heading" /\ output[k].file = file}

\* the heading a line stands under: the last heading before it
HeadingAbove(k) ==
  LET hs == {h \in 1..k : output[h].kind = "heading"}
  IN output[CHOOSE h \in hs : \A g \in hs : g <= h].file

\* where in the batch a path occurs first
FirstOccurrence(file) ==
  CHOOSE i \in DOMAIN toFix :
    toFix[i].path = file /\ \A j \in DOMAIN toFix : toFix[j].path = file => i <= j

\* C33: buildPrompt puts every comment of its input into the payload exactly
\* once, under the heading of its own path, with one heading per distinct
\* path; comments of one path are in their input order, and the paths in the
\* order of their first occurrence.
C33_GroupedByPath ==
  pc = "Prompted" =>
    /\ \A i \in DOMAIN toFix :
         /\ Cardinality(ItemLines(toFix[i].id)) = 1
         /\ \A k \in ItemLines(toFix[i].id) : HeadingAbove(k) = toFix[i].path
    /\ Cardinality({k \in DOMAIN output : output[k].kind = "item"}) = Len(toFix)
    /\ \A file \in Paths :
         Cardinality(HeadingLines(file)) =
           (IF \E i \in DOMAIN toFix : toFix[i].path = file THEN 1 ELSE 0)
    /\ \A i, j \in DOMAIN toFix :
         (i < j /\ toFix[i].path = toFix[j].path) =>
           \A k \in ItemLines(toFix[i].id), m \in ItemLines(toFix[j].id) : k < m
    /\ \A h, g \in {k \in DOMAIN output : output[k].kind = "heading"} :
         h < g => FirstOccurrence(output[h].file) < FirstOccurrence(output[g].file)

\* a.ts, b.ts, a.ts, c.ts: the third comment joins the first under a.ts
C33_Witness ==
  /\ pc = "Prompted"
  /\ Len(toFix) = 4
  /\ [i \in DOMAIN toFix |-> toFix[i].path] = <<"a.ts", "b.ts", "a.ts", "c.ts">>
  /\ [k \in DOMAIN output |-> output[k].kind] =
       <<"intro", "heading", "item", "item", "blank", "heading", "item", "blank",
         "heading", "item", "blank", "outro">>
  /\ output[4].id = 3


(***************************************************************************)
(* At most once per invocation                                             *)
(***************************************************************************)

\* C34: within one invocation of fix mode every comment id is passed to the
\* classifier at most once and to the fix actor at most once (a fetch returns
\* each thread once, so the ids of a fetch are pairwise distinct): a call of
\* an actor is never about an id the invocation has passed to that actor
\* before.
C34_AtMostOncePerInvocation ==
  /\ [][ (pc = "Classifying" /\ last'.actor = "classifier") =>
           /\ last'.ids \cap handed.classifier = {}
           /\ handed'.classifier = handed.classifier \cup last'.ids ]_vars
  /\ [][ (pc = "Acting" /\ last'.actor = "fix") =>
           /\ last'.ids \cap handed.fix = {}
           /\ handed'.fix = handed.fix \cup last'.ids ]_vars
  /\ [][ (InLoop /\ last'.actor \notin {"classifier", "fix"}) =>
           handed' = handed ]_vars

\* the second cycle of an invocation fetches comment 1 again, still
\* unresolved, after the first cycle classified and fixed it, and passes only
\* the new comment 2 on
C34_Witness ==
  /\ last.ev = "fixed"
  /\ runCount = 2
  /\ opts.validateComments
  /\ IdSet(comments) = {1, 2}
  /\ \A i \in DOMAIN comments : ~comments[i].isResolved
  /\ handed = [classifier |-> {1, 2}, fix |-> {1, 2}]
  /\ last.ids = {2}


(***************************************************************************)
(* Nothing to commit                                                       *)
(***************************************************************************)
DiskAddressed == IF disk = NoFile THEN {} ELSE Range(disk.addressedCommentIds)

\* C35: when the fix actor exits successfully and the working tree has no
\* changes (commitAndPush returns null), every comment of the batch is still
\* added to the addressed list, with a run record without commit identifier,
\* and the ledger is saved (the file holds them once the write went through);
\* an id in the addressed list of the file is never passed to the classifier
\* or the fix actor again.
C35_CleanTreeStillAddressed ==
  /\ [][ (last'.ev = "committed" /\ last'.git = "clean") =>
           /\ last.ev = "fixed"
           /\ last'.ids = IdSet(toFix)
           /\ last'.ids # {}
           /\ last'.ids \subseteq Range(state'.addressedCommentIds)
           /\ Len(state'.runs) = Len(state.runs) + 1
           /\ state'.runs[Len(state'.runs)].commitSha = Null
           /\ last'.write # "none"
           /\ last'.write = "ok" =>
                (disk' = state' /\ last'.ids \subseteq persisted') ]_vars
  /\ [][ (~opts'.resolveAddressed /\ last'.actor \in {"classifier", "fix"}) =>
           last'.ids \cap DiskAddressed = {} ]_vars

\* the first cycle fixed comment 1 without a change to commit; the second
\* cycle fetches comment 1, still unresolved, and finds nothing eligible
C35_Witness ==
  /\ last.ev = "fetched"
  /\ ~opts.resolveAddressed
  /\ runCount = 2
  /\ Len(state.runs) = 1
  /\ state.runs[1].commitSha = Null
  /\ state.addressedCommentIds = <<1>>
  /\ disk = state
  /\ comments = <<Comment(1, FALSE)>>
  /\ unaddressed = <<>>


(***************************************************************************)
(* The allow-list                                                          *)
(***************************************************************************)

\* C36: an allow-list that is supplied but empty (--authors "") is treated as
\* no allow-list: the author filter is skipped, so that in fix mode every
\* unresolved comment the ledger does not hold is eligible, in resolution
\* mode every unresolved comment is in the work list, whoever wrote them, and
\* those are the comments the actors are called on.
C36_EmptyAllowList ==
  /\ [](ParseAuthors(EmptyAuthorsOption) = ParseAuthors(NoAuthorsOption))
  /\ []((opts.authors = ParseAuthors(EmptyAuthorsOption) /\ last.ev = "fetched") =>
          IF opts.resolveAddressed
            THEN unresolved = FilterUnresolved(comments)
            ELSE unaddressed = filterUnaddressed(FilterUnresolved(comments), state))
  /\ [][ (opts.authors = ParseAuthors(EmptyAuthorsOption) /\ last'.actor # "none") =>
           last'.ids \subseteq
             IdSet(IF opts.resolveAddressed THEN unresolved ELSE unaddressed) ]_vars

\* with the empty allow-list the fix actor is called on the comments of two
\* authors
C36_Witness ==
  /\ opts.authors = ParseAuthors(EmptyAuthorsOption)
  /\ ~opts.resolveAddressed
  /\ last.actor = "fix"
  /\ last.ids = {1, 2}
  /\ AuthorOf(1) # AuthorOf(2)


(***************************************************************************)
(* C37: reply before resolve, and nothing sent in a dry run                *)
(***************************************************************************)
\* C37: in resolution mode the resolve mutation of a thread is sent only in
\* the iteration whose reply to that thread came back, and only when the
\* checker said addressed for that comment; a reply, too, is sent only on
\* such a verdict; in a dry run no iteration sends a reply or a resolve
\* mutation.
C37_ReplyThenResolve ==
  /\ [][ last'.resolved =>
            /\ pc = "Resolving"
            /\ last'.replied
            /\ last'.verdict
            /\ last'.actor = "checker"
            /\ last'.ids = {unresolved[visited + 1].id}
            /\ ~opts.dryRun ]_vars
  /\ [][ last'.replied => (pc = "Resolving" /\ last'.verdict /\ ~opts.dryRun) ]_vars
  /\ [][ (pc = "Resolving" /\ opts.dryRun) =>
            (~last'.replied /\ ~last'.resolved) ]_vars
  /\ [][ (pc = "Resolving" /\ last'.ev = "replyFails") => ~last'.resolved ]_vars

\* the first thread's reply failed, so it was not resolved; the second was
\* replied to and resolved
C37_Witness ==
  /\ opts.resolveAddressed
  /\ ~opts.dryRun
  /\ last.ev = "resolved"
  /\ last.ids = {2}
  /\ last.replied
  /\ last.resolved
  /\ last.verdict
  /\ resolvedCount = 1
  /\ unresolvedCount = 1


(***************************************************************************)
(* C38: the two counters of the resolution mode                            *)
(***************************************************************************)
\* C38: while the per-comment loop of the resolution mode runs, the resolved
\* count plus the still-unresolved count is the number of comments the loop
\* has taken, and each iteration adds one to exactly one of the two, whether
\* the file was missing, whatever the checker said and whether the reply or
\* the resolve call failed; so when the invocation ends after the loop the
\* two counts add up to the number of unresolved comments of the fetch that
\* passed the allow-list.
C38_CountsAddUp ==
  /\ [](pc = "Resolving" =>
          /\ resolvedCount + unresolvedCount = visited
          /\ visited < Len(unresolved))
  /\ []((opts.resolveAddressed /\ pc = "Done" /\ last.ev # "fetched") =>
          /\ visited = Len(unresolved)
          /\ resolvedCount + unresolvedCount = Len(unresolved)
          /\ unresolved = FilterByAuthor(FilterUnresolved(comments), opts.authors))
  /\ [][ (pc = "Resolving" /\ pc' # "Killed") =>
            /\ visited' = visited + 1
            /\ \/ resolvedCount' = resolvedCount + 1 /\ unresolvedCount' = unresolvedCount
               \/ resolvedCount' = resolvedCount /\ unresolvedCount' = unresolvedCount + 1
            /\ unresolved' = unresolved ]_vars

\* the loop ended on two comments: the first was resolved, the reply to the
\* second failed
C38_Witness ==
  /\ opts.resolveAddressed
  /\ pc = "Done"
  /\ Len(unresolved) = 2
  /\ last.ev = "replyFails"
  /\ last.ids = {2}
  /\ resolvedCount = 1
  /\ unresolvedCount = 1


(***************************************************************************)
(* C39: a ledger file that cannot be read or parsed                        *)
(***************************************************************************)
\* the ledgers one ledger function can make of the empty ledger
OneCallOnEmpty ==
  {EmptyState}
    \cup {markAddressed(EmptyState, ids) : ids \in IdLists}
    \cup {markIgnored(EmptyState, ids) : ids \in IdLists}
    \cup {addRunRecord(EmptyState, [commentsFound |-> 1, commentsAddressed |-> 1,
                                    commitSha |-> Null])}

====
